---- MODULE Spec2Model ----
(***************************************************************************)
(* State-machine model of the e-commerce REST API: the account store, the  *)
(* product store, JWT issuance/verification, the express middleware gates  *)
(* (validate / protect / authorize) and the controllers.  A request is a   *)
(* small process: every `await` on the document store is one atomic step,  *)
(* so two requests interleave exactly between their store operations.      *)
(***************************************************************************)
EXTENDS Integers, Sequences, FiniteSets, TLC

(* ------------------------------ bounds --------------------------------- *)
\* last tick of the wall clock (one tick = one second, the resolution of iat)
MaxTime == 1
\* process.env.JWT_EXPIRE / JWT_REFRESH_EXPIRE, in ticks
JWT_EXPIRE == 1
JWT_REFRESH_EXPIRE == 1

\* largest stock level a product reaches
MaxStock == 1
MaxPage == 3
MaxLimit == 2

\* concurrent HTTP clients
Clients == {"c1", "c2"}
\* mail addresses a client may type; upper = typed with capital letters
Addrs == {"a@x.com", "b@x.com"}
EmailInputs == [addr : Addrs, upper : BOOLEAN]
RoleInputs == {"user", "admin"}
\* a boolean body field as the client may send it ("absent": not a boolean)
FlagInputs == {"true", "false", "absent"}
Envs == {"development", "production"}
\* SKU codes as typed by a client; the store keeps them in upper case
SkuInputs == {"sku-1", "SKU-2"}
\* a JSON number q is held as the integer 2q, so that 0.5, 1.5, ... exist
Whole(n) == 2 * n
IsInteger(v) == v % 2 = 0
\* stock quantities a client may send (Whole(-1): a negative number)
StockInputs == {Whole(n) : n \in (-1)..MaxStock}
\* quantities that are numbers but not integers (0.5)
FractionInputs == {1}
\* the stock field is absent from the body
NoStock == -3
\* prices a client may send
PriceInputs == {1, 2}
\* the price or comparePrice field is absent
NoPrice == -1
ComparePriceInputs == {NoPrice, 0, 1}
\* the isPrimary flags of an image list as sent; <<>>: the field is absent
ImageInputs == {<<FALSE, FALSE>>, <<TRUE, TRUE>>, <<FALSE, TRUE>>}
Categories == {"books", "toys"}
\* the page or limit parameter is absent from the query string
NoPage == -1

JWT_SECRET == "JWT_SECRET"
JWT_REFRESH_SECRET == "JWT_REFRESH_SECRET"

VARIABLES
    users,      \* the User collection: sequence of documents, _id = index
    products,   \* the Product collection: sequence of documents, _id = index
    now,        \* wall clock, seconds
    env,        \* process.env.NODE_ENV
    conns,      \* the clients whose requests the server is handling
    issued,     \* token pairs handed to clients so far: set of [id, iat]
    req         \* per client: its request in flight, or the response it got

vars == <<users, products, now, env, conns, issued, req>>

(* ------------------------------ tokens --------------------------------- *)
NoToken == [id |-> 0, iat |-> 0, exp |-> 0, secret |-> "none"]

\* jwt.sign(payload, secret, {expiresIn}): deterministic in (payload, secret, iat)
JwtSign(id, secret, expiresIn, t) ==
    [id |-> id, iat |-> t, exp |-> t + expiresIn, secret |-> secret]

generateAccessToken(id, t) == JwtSign(id, JWT_SECRET, JWT_EXPIRE, t)
generateRefreshToken(id, t) == JwtSign(id, JWT_REFRESH_SECRET, JWT_REFRESH_EXPIRE, t)

\* jwt.verify as it would be if any signature were accepted
JwtVerifyAnySecret(tok, secret, t) ==
    IF t >= tok.exp THEN "TokenExpiredError" ELSE "ok"

\* jwt.verify: signature first, then expiry (expired when clock >= exp)
JwtVerify(tok, secret, t) ==
    IF tok.secret # secret THEN "JsonWebTokenError"
    ELSE IF t >= tok.exp THEN "TokenExpiredError"
    ELSE "ok"

\* a token signed with a key the server does not know
ForgedToken == [id |-> 1, iat |-> 0, exp |-> MaxTime + 1, secret |-> "attacker"]

\* what a client can put in a header or body: nothing, a forged token, or
\* any token the server handed out earlier
TokenInputs ==
    {NoToken, ForgedToken}
        \cup {generateAccessToken(p.id, p.iat) : p \in issued}
        \cup {generateRefreshToken(p.id, p.iat) : p \in issued}

(* ------------------------------ accounts ------------------------------- *)
toLowerCase(e) == [e EXCEPT !.upper = FALSE]

\* bcrypt.hash / bcrypt.compare
Hash(p) == <<"bcrypt", p>>
matchPassword(entered, stored) == stored = Hash(entered)

UserIds == 1..Len(users)
NoUser == [id |-> 0, role |-> "none"]

\* User.findOne({ email }): 0 when no document matches
FindByEmail(us, e) ==
    IF \E i \in 1..Len(us) : us[i].email = e
    THEN CHOOSE i \in 1..Len(us) : us[i].email = e
    ELSE 0

ExistsAdmin(us) == \E i \in 1..Len(us) : us[i].role = "admin"

(* ------------------------------ gates ---------------------------------- *)
Reject(status, msg) == [ok |-> FALSE, status |-> status, msg |-> msg, user |-> NoUser]
Pass(user) == [ok |-> TRUE, status |-> 0, msg |-> "", user |-> user]

\* protect as it would be without the isActive check (lines 32-37)
protectIgnoringActive(tok, us, t) ==
    IF tok = NoToken
    THEN Reject(401, "Access denied. No token provided.")
    ELSE LET v == JwtVerify(tok, JWT_SECRET, t) IN
         IF v = "TokenExpiredError"
         THEN Reject(401, "Token expired. Please login again.")
         ELSE IF v = "JsonWebTokenError"
         THEN Reject(401, "Invalid token. Please login again.")
         ELSE IF tok.id \notin 1..Len(us)
         THEN Reject(401, "User not found. Token is invalid.")
         ELSE Pass([id |-> tok.id, role |-> us[tok.id].role])

\* protect as it would be if it also wanted a stored refresh token
protectRequiresSession(tok, us, t) ==
    IF tok = NoToken
    THEN Reject(401, "Access denied. No token provided.")
    ELSE LET v == JwtVerify(tok, JWT_SECRET, t) IN
         IF v = "TokenExpiredError"
         THEN Reject(401, "Token expired. Please login again.")
         ELSE IF v = "JsonWebTokenError"
         THEN Reject(401, "Invalid token. Please login again.")
         ELSE IF tok.id \notin 1..Len(us)
         THEN Reject(401, "User not found. Token is invalid.")
         ELSE IF ~us[tok.id].isActive \/ us[tok.id].refreshToken = NoToken
         THEN Reject(401, "User account is deactivated.")
         ELSE Pass([id |-> tok.id, role |-> us[tok.id].role])

\* middleware/auth.js protect: bearer token -> attached account (req.user)
protect(tok, us, t) ==
    IF tok = NoToken
    THEN Reject(401, "Access denied. No token provided.")
    ELSE LET v == JwtVerify(tok, JWT_SECRET, t) IN
         IF v = "TokenExpiredError"
         THEN Reject(401, "Token expired. Please login again.")
         ELSE IF v = "JsonWebTokenError"
         THEN Reject(401, "Invalid token. Please login again.")
         ELSE IF tok.id \notin 1..Len(us)
         THEN Reject(401, "User not found. Token is invalid.")
         ELSE IF ~us[tok.id].isActive
         THEN Reject(401, "User account is deactivated.")
         ELSE Pass([id |-> tok.id, role |-> us[tok.id].role])

\* authorize as it would be without the role check
authorizeAnyRole(roles, user) ==
    IF user = NoUser
    THEN Reject(401, "Access denied. User not authenticated.")
    ELSE Pass(user)

\* middleware/auth.js authorize(...roles)
authorize(roles, user) ==
    IF user = NoUser
    THEN Reject(401, "Access denied. User not authenticated.")
    ELSE IF user.role \notin roles
    THEN Reject(403, "Access denied. Required role")
    ELSE Pass(user)

\* validate(paramValidation.objectId, 'params'): id 0 stands for a string
\* that is not 24 hex digits
validateId(user, p) ==
    IF p.target = 0 THEN Reject(400, "Invalid ID format") ELSE Pass(user)

\* validate(schema) on the body: p.valid says whether the body fits the schema
validateBody(user, p) ==
    IF ~p.valid THEN Reject(400, "validation failed") ELSE Pass(user)

\* the chains as they would be with the validators registered first
StagesValidatorFirst(route) ==
    CASE route = "register"          -> <<"validateBody">>
      [] route = "login"             -> <<"validateBody">>
      [] route = "refreshToken"      -> <<>>
      [] route = "logout"            -> <<"protect">>
      [] route = "getAllUsers"       -> <<"protect", "authorize">>
      [] route = "getUserStats"      -> <<"protect", "authorize">>
      [] route = "toggleUserStatus"  -> <<"validateId", "protect", "authorize">>
      [] route = "deleteUser"        -> <<"validateId", "protect">>
      [] route = "createProduct"     -> <<"validateBody", "protect", "authorize">>
      [] route = "getProductStats"   -> <<"protect", "authorize">>
      [] route = "updateProduct"     ->
            <<"validateId", "validateBody", "protect", "authorize">>
      [] route = "deleteProduct"     -> <<"validateId", "protect", "authorize">>
      [] route = "toggleProductStatus" -> <<"validateId", "protect", "authorize">>
      [] route = "updateStock"       -> <<"validateId", "protect", "authorize">>
      [] route = "getAllProducts"    -> <<"validateBody">>
      [] route = "getProductsByCategory" -> <<>>
      [] route = "getProfile"        -> <<"protect">>
      [] route = "changePassword"    -> <<"validateBody", "protect">>
      [] route = "getProduct"        -> <<"validateId">>
      [] route = "getFeaturedProducts" -> <<>>
      [] route = "getUser"           -> <<"validateId", "protect">>
      [] route = "updateUser"        -> <<"validateId", "validateBody", "protect">>

\* the middleware chain of every route, in registration order
Stages(route) ==
    CASE route = "register"          -> <<"validateBody">>
      [] route = "login"             -> <<"validateBody">>
      [] route = "refreshToken"      -> <<>>
      [] route = "logout"            -> <<"protect">>
      [] route = "getAllUsers"       -> <<"protect", "authorize">>
      [] route = "getUserStats"      -> <<"protect", "authorize">>
      [] route = "toggleUserStatus"  -> <<"protect", "authorize", "validateId">>
      [] route = "deleteUser"        -> <<"protect", "validateId">>
      [] route = "createProduct"     -> <<"protect", "authorize", "validateBody">>
      [] route = "getProductStats"   -> <<"protect", "authorize">>
      [] route = "updateProduct"     ->
            <<"protect", "authorize", "validateId", "validateBody">>
      [] route = "deleteProduct"     -> <<"protect", "authorize", "validateId">>
      [] route = "toggleProductStatus" -> <<"protect", "authorize", "validateId">>
      [] route = "updateStock"       -> <<"protect", "authorize", "validateId">>
      [] route = "getAllProducts"    -> <<"validateBody">>
      [] route = "getProductsByCategory" -> <<>>
      [] route = "getProfile"        -> <<"protect">>
      [] route = "changePassword"    -> <<"protect", "validateBody">>
      [] route = "getProduct"        -> <<"validateId">>
      [] route = "getFeaturedProducts" -> <<>>
      [] route = "getUser"           -> <<"protect", "validateId">>
      [] route = "updateUser"        -> <<"protect", "validateId", "validateBody">>

\* routes/auth.js and routes/users.js behind protect
AccountRoutes ==
    {"logout", "getAllUsers", "getUserStats", "toggleUserStatus", "deleteUser"}
\* the products router below router.use(protect); router.use(authorize('admin'))
ProductRoutes ==
    {"createProduct", "getProductStats", "updateProduct", "deleteProduct",
     "toggleProductStatus", "updateStock"}
\* the routes registered with authorize('admin')
AdminOnlyRoutes ==
    ProductRoutes \cup {"getAllUsers", "getUserStats", "toggleUserStatus"}

Gate(name, user, tok, p, us, t) ==
    CASE name = "protect"      -> protect(tok, us, t)
      [] name = "authorize"    -> authorize({"admin"}, user)
      [] name = "validateId"   -> validateId(user, p)
      [] name = "validateBody" -> validateBody(user, p)

\* express runs the chain in order; the first gate that calls next(err) ends it
RECURSIVE RunGates(_, _, _, _, _, _, _)
RunGates(stages, i, user, tok, p, us, t) ==
    IF i > Len(stages) THEN Pass(user)
    ELSE LET g == Gate(stages[i], user, tok, p, us, t) IN
         IF g.ok THEN RunGates(stages, i + 1, g.user, tok, p, us, t) ELSE g

(* ------------------------------ requests ------------------------------- *)
NoEmail == [addr |-> "", upper |-> FALSE]
\* the validated request (body and path parameters); unused fields keep
\* these defaults
NoParams == [email |-> NoEmail, password |-> "", role |-> "", target |-> 0,
             flag |-> "", valid |-> TRUE, sku |-> "", stock |-> 0,
             stockType |-> "", op |-> "", price |-> NoPrice,
             comparePrice |-> NoPrice, images |-> <<>>, category |-> "",
             page |-> NoPage, limit |-> NoPage, newPassword |-> "",
             typed |-> NoEmail, isFeatured |-> FALSE, name |-> "",
             sent |-> [role |-> "", isActive |-> ""], token |-> NoToken]
\* the document a handler loaded from the store
NoDoc == [id |-> 0, isActive |-> FALSE, stock |-> 0, role |-> "",
         price |-> NoPrice, comparePrice |-> NoPrice, images |-> <<>>,
         total |-> 0]
\* the data of a response: the pagination block of a listing, the identity
\* of a profile
NoData == [total |-> 0, currentPage |-> 0, totalPages |-> 0,
           hasNextPage |-> FALSE, hasPrevPage |-> FALSE,
           id |-> 0, email |-> NoEmail, role |-> "", items |-> {}]
\* a response: status, message, the token pair of a token response, data
NoRes == [status |-> 0, msg |-> "", accessToken |-> NoToken, refreshToken |-> NoToken,
          data |-> NoData]
\* pc: "idle", then the handler's position, then "done" (res holds the answer)
NoReq == [route |-> "idle", pc |-> "idle", user |-> NoUser, p |-> NoParams,
          doc |-> NoDoc, res |-> NoRes]

\* ids a client may put in a path: 0 is malformed, Len(users) + 1 names nobody
TargetInputs == 0..(Len(users) + 1)

Idle(c) == c \in conns /\ req[c].pc = "idle"
At(c, route, pc) == req[c].route = route /\ req[c].pc = pc

\* res.status(status).json(...): the request ends; the client holds the
\* answer until it takes it (Receive)
Respond(c, route, status, msg, access, refresh) ==
    req' = [req EXCEPT ![c] =
              [NoReq EXCEPT !.route = route, !.pc = "done",
                            !.p = req[c].p, !.doc = req[c].doc,
                            !.res = [NoRes EXCEPT !.status = status,
                                        !.msg = msg,
                                        !.accessToken = access,
                                        !.refreshToken = refresh]]]

\* res.status(200).json({ success: true, data })
RespondData(c, route, data) ==
    req' = [req EXCEPT ![c] =
              [NoReq EXCEPT !.route = route, !.pc = "done",
                            !.p = req[c].p, !.doc = req[c].doc,
                            !.res = [NoRes EXCEPT !.status = 200, !.data = data]]]

\* next(createError(msg, status)) -> errorHandler -> response
Fail(c, route, status, msg) ==
    Respond(c, route, status, msg, NoToken, NoToken)

Done(c, route, status, msg) ==
    Respond(c, route, status, msg, NoToken, NoToken)

\* middleware/errorHandler.js handleError: the store's E11000 becomes 409
DuplicateKeyStatus == 409
\* handleError: a mongoose ValidationError becomes 400
ValidationErrorStatus == 400

InitStore ==
    /\ users = <<>>
    /\ now = 0
    /\ env \in Envs
    /\ issued = {}
    /\ products = <<>>
    /\ req = [c \in Clients |-> NoReq]

\* one request at a time
Init == InitStore /\ conns = {"c1"}

Tick ==
    /\ now < MaxTime
    /\ now' = now + 1
    /\ UNCHANGED <<users, products, env, conns, issued, req>>

\* the client takes the response and is free to send its next request
Receive(c) ==
    /\ req[c].pc = "done"
    /\ req' = [req EXCEPT ![c] = NoReq]
    /\ UNCHANGED <<users, products, now, env, conns, issued>>

\* generateTokenResponse(user) followed by user.refreshToken = ...; user.save():
\* the pair is signed with the current second and the slot is overwritten
IssueTokens(c, route, status, msg, id) ==
    /\ users' = [users EXCEPT ![id].refreshToken = generateRefreshToken(id, now)]
    /\ issued' = issued \cup {[id |-> id, iat |-> now]}
    /\ Respond(c, route, status, msg,
               generateAccessToken(id, now), generateRefreshToken(id, now))

(* ------------------------- authController.register --------------------- *)
\* the register schema as it would be without lowercase() on the email
registerSchemaKeepsCase(b) ==
    [NoParams EXCEPT !.valid = b.password # "weak",
                     !.email = b.email,
                     !.password = b.password,
                     !.role = b.role]

\* userValidation.register: the body fits unless the password is too weak;
\* the email is lower-cased by the schema
RegisterBodies == [email : EmailInputs, password : {"Passw0rd1", "weak"},
                   role : RoleInputs, name : {"Ann"}]
registerSchema(b) ==
    [NoParams EXCEPT !.valid = b.password # "weak",
                     !.email = toLowerCase(b.email),
                     !.password = b.password,
                     !.role = b.role,
                     !.name = b.name]

\* lines 20-34, userRole as far as it is decided without the store
roleWithoutLookup(role, e) ==
    IF role = "admin" /\ e = "development" THEN "admin" ELSE "user"
needsAdminLookup(role, e) == role = "admin" /\ e # "development"
\* lines 29-32 as they would be if the lookup's answer were ignored
roleAfterLookupAdmin(adminExists) == "admin"

\* lines 29-32
roleAfterLookup(adminExists) == IF adminExists THEN "user" ELSE "admin"

\* lines 12-18: validator, then User.findOne({ email })
RegisterLookup(c, b) ==
    LET v == registerSchema(b)
        g == RunGates(Stages("register"), 1, NoUser, NoToken, v, users, now)
    IN
    /\ Idle(c)
    /\ IF ~g.ok
       THEN Fail(c, "register", g.status, g.msg)
       ELSE IF FindByEmail(users, v.email) # 0
       THEN Fail(c, "register", 409, "User with this email already exists")
       ELSE /\ req' = [req EXCEPT ![c] =
                  [NoReq EXCEPT !.route = "register",
                                !.pc = IF needsAdminLookup(v.role, env)
                                       THEN "adminCheck" ELSE "create",
                                !.p = v,
                                !.doc.role = roleWithoutLookup(v.role, env)]]
    /\ UNCHANGED <<users, products, now, env, conns, issued>>

\* line 29: User.findOne({ role: 'admin' })
RegisterAdminCheck(c) ==
    /\ At(c, "register", "adminCheck")
    /\ req' = [req EXCEPT ![c].pc = "create",
                          ![c].doc.role = roleAfterLookup(ExistsAdmin(users))]
    /\ UNCHANGED <<users, products, now, env, conns, issued>>

\* the User collection as it would be without the unique index
EmailIndexOff(us, e) == FALSE

\* the unique index on email: does an insert of this key collide?
EmailIndexRejects(us, e) == FindByEmail(us, e) # 0

\* line 37: User.create; a collision answers E11000, which the global error
\* handler turns into a response
RegisterCreate(c) ==
    /\ At(c, "register", "create")
    /\ IF EmailIndexRejects(users, req[c].p.email)
       THEN /\ Fail(c, "register", DuplicateKeyStatus, "Email already exists")
            /\ UNCHANGED users
       ELSE /\ users' = Append(users,
                  [email |-> req[c].p.email, password |-> Hash(req[c].p.password),
                   role |-> req[c].doc.role, isActive |-> TRUE,
                   refreshToken |-> NoToken, name |-> req[c].p.name])
            /\ req' = [req EXCEPT ![c].pc = "save", ![c].doc.id = Len(users) + 1]
    /\ UNCHANGED <<products, now, env, conns, issued>>

\* lines 47-70: generateTokenResponse, user.save(), 201
RegisterSave(c) ==
    /\ At(c, "register", "save")
    /\ IssueTokens(c, "register", 201, "User registered successfully", req[c].doc.id)
    /\ UNCHANGED <<products, now, env, conns>>

(* ------------------------- authController.login ------------------------ *)
LoginBodies == [email : EmailInputs, password : {"Passw0rd1", "Passw0rd2"}]
\* the login schema as it would be without lowercase() on the email
loginSchemaKeepsCase(b) ==
    [NoParams EXCEPT !.email = b.email, !.password = b.password]

\* userValidation.login: any password string fits; the email is lower-cased
loginSchema(b) ==
    [NoParams EXCEPT !.email = toLowerCase(b.email), !.password = b.password]

\* lines 82-96 on the loaded document: which error, if any
loginCheck(us, id, password) ==
    IF id = 0
    THEN Reject(401, "Invalid email or password")
    ELSE IF ~us[id].isActive
    THEN Reject(401, "Your account has been deactivated. Please contact support.")
    ELSE IF ~matchPassword(password, us[id].password)
    THEN Reject(401, "Invalid email or password")
    ELSE Pass(NoUser)

\* lines 79-96: validator, User.findOne({ email }), checks
LoginLookup(c, b) ==
    LET v == loginSchema(b)
        g == RunGates(Stages("login"), 1, NoUser, NoToken, v, users, now)
        id == FindByEmail(users, v.email)
        r == loginCheck(users, id, v.password)
    IN
    /\ Idle(c)
    /\ IF ~g.ok
       THEN Fail(c, "login", g.status, g.msg)
       ELSE IF ~r.ok
       THEN Fail(c, "login", r.status, r.msg)
       ELSE /\ req' = [req EXCEPT ![c] =
                  [NoReq EXCEPT !.route = "login", !.pc = "save", !.doc.id = id,
                                !.p = [v EXCEPT !.typed = b.email]]]
    /\ UNCHANGED <<users, products, now, env, conns, issued>>

\* lines 99-122
LoginSave(c) ==
    /\ At(c, "login", "save")
    /\ IssueTokens(c, "login", 200, "Login successful", req[c].doc.id)
    /\ UNCHANGED <<products, now, env, conns>>

(* ------------------------- authController.getProfile ------------------- *)
\* lines 184-205: User.findById(req.user._id) and the identity returned
GetProfile(c) ==
    LET id == req[c].user.id IN
    /\ At(c, "getProfile", "handler")
    /\ RespondData(c, "getProfile",
           [NoData EXCEPT !.id = id, !.email = users[id].email,
                          !.role = users[id].role])
    /\ UNCHANGED <<users, products, now, env, conns, issued>>

(* ------------------------- authController.changePassword --------------- *)
\* userValidation.changePassword: newPassword must fit the password rule
ChangePasswordBodies ==
    [currentPassword : {"Passw0rd1", "Passw0rd2"}, newPassword : {"Passw0rd2", "weak"}]
changePasswordSchema(b) ==
    [NoParams EXCEPT !.valid = b.newPassword # "weak",
                     !.password = b.currentPassword,
                     !.newPassword = b.newPassword]

\* changePassword as it would be without the comparison of the current password
changePasswordCheckAnyPassword(us, id, currentPassword) == Pass(NoUser)

\* lines 219-222: user.matchPassword(currentPassword)
changePasswordCheck(us, id, currentPassword) ==
    IF ~matchPassword(currentPassword, us[id].password)
    THEN Reject(400, "Current password is incorrect")
    ELSE Pass(NoUser)

\* lines 216-222: User.findById(req.user._id).select('+password'), check
ChangePasswordLookup(c) ==
    LET id == req[c].user.id
        r == changePasswordCheck(users, id, req[c].p.password)
    IN
    /\ At(c, "changePassword", "handler")
    /\ req' = [req EXCEPT ![c] =
          IF ~r.ok
          THEN [NoReq EXCEPT !.route = "changePassword", !.pc = "done",
                             !.p = req[c].p, !.doc.id = id,
                             !.res = [NoRes EXCEPT !.status = r.status,
                                                   !.msg = r.msg]]
          ELSE [@ EXCEPT !.pc = "save", !.doc.id = id]]
    /\ UNCHANGED <<users, products, now, env, conns, issued>>

\* lines 225-231: user.password = newPassword; user.save() hashes it
ChangePasswordSave(c) ==
    /\ At(c, "changePassword", "save")
    /\ users' = [users EXCEPT ![req[c].doc.id].password = Hash(req[c].p.newPassword)]
    /\ Done(c, "changePassword", 200, "Password changed successfully")
    /\ UNCHANGED <<products, now, env, conns, issued>>

(* ------------------------- authController.refreshToken ----------------- *)
\* User.findByRefreshToken: 0 when the token does not verify or names nobody
findByRefreshToken(tok, us, t) ==
    IF JwtVerify(tok, JWT_REFRESH_SECRET, t) # "ok" THEN 0
    ELSE IF tok.id \in 1..Len(us) THEN tok.id ELSE 0

\* lines 133-146 as they would be without the comparison with the stored token
refreshCheckIgnoringStored(tok, us, t) ==
    LET id == findByRefreshToken(tok, us, t) IN
    IF tok = NoToken
    THEN Reject(400, "Refresh token is required")
    ELSE IF id = 0
    THEN Reject(401, "Invalid refresh token")
    ELSE IF ~us[id].isActive
    THEN Reject(401, "User account is deactivated")
    ELSE Pass(NoUser)

\* lines 133-146: which error, if any
refreshCheck(tok, us, t) ==
    LET id == findByRefreshToken(tok, us, t) IN
    IF tok = NoToken
    THEN Reject(400, "Refresh token is required")
    ELSE IF id = 0 \/ us[id].refreshToken # tok
    THEN Reject(401, "Invalid refresh token")
    ELSE IF ~us[id].isActive
    THEN Reject(401, "User account is deactivated")
    ELSE Pass(NoUser)

RefreshLookup(c, tok) ==
    LET r == refreshCheck(tok, users, now) IN
    /\ Idle(c)
    /\ IF ~r.ok
       THEN req' = [req EXCEPT ![c] =
                  [NoReq EXCEPT !.route = "refreshToken", !.pc = "done",
                                !.p.token = tok,
                                !.res = [NoRes EXCEPT !.status = r.status,
                                                      !.msg = r.msg]]]
       ELSE /\ req' = [req EXCEPT ![c] =
                  [NoReq EXCEPT !.route = "refreshToken", !.pc = "save",
                                !.p.token = tok, !.doc.id = tok.id]]
    /\ UNCHANGED <<users, products, now, env, conns, issued>>

\* lines 149-159
RefreshSave(c) ==
    /\ At(c, "refreshToken", "save")
    /\ IssueTokens(c, "refreshToken", 200, "Token refreshed successfully", req[c].doc.id)
    /\ UNCHANGED <<products, now, env, conns>>

(* ------------------------- product inputs ------------------------------ *)
toUpperCase(sku) ==
    CASE sku = "sku-1" -> "SKU-1"
      [] sku = "sku-2" -> "SKU-2"
      [] OTHER -> sku

\* Product.findOne({ sku }): 0 when no document matches
FindBySku(ps, sku) ==
    IF \E i \in 1..Len(ps) : ps[i].sku = sku
    THEN CHOOSE i \in 1..Len(ps) : ps[i].sku = sku
    ELSE 0

\* the unique index on sku: does a write of this key to document `self`
\* (0: a new document) collide with another document?
SkuIndexRejects(ps, sku, self) ==
    \E i \in 1..Len(ps) : i # self /\ ps[i].sku = sku

\* productValidation.create: sku, stock (an integer >= 0), price (>= 0),
\* category and at least one image are required; comparePrice is optional
\* and >= 0
CreateBodies == [sku : SkuInputs, stock : StockInputs, price : {1},
                 comparePrice : {NoPrice}, images : {<<TRUE>>},
                 category : {"books"}]
createSchema(b) ==
    [NoParams EXCEPT !.valid = /\ b.stock >= 0 /\ IsInteger(b.stock)
                              /\ b.price >= 0
                              /\ (b.comparePrice = NoPrice \/ b.comparePrice >= 0)
                              /\ Len(b.images) >= 1
                              /\ b.category \in Categories,
                     !.sku = b.sku, !.stock = b.stock, !.price = b.price,
                     !.comparePrice = b.comparePrice, !.images = b.images,
                     !.category = b.category]

\* productValidation.update: every field is optional, with the bounds of
\* create when present
UpdateBodies == [sku : {""} \cup SkuInputs, stock : {NoStock} \cup StockInputs,
                 flag : FlagInputs, price : {NoPrice}, comparePrice : {NoPrice},
                 images : {<<>>}, category : {""}]
updateSchema(b, t) ==
    [NoParams EXCEPT !.valid = /\ (b.stock = NoStock
                                    \/ (b.stock >= 0 /\ IsInteger(b.stock)))
                              /\ (b.price = NoPrice \/ b.price >= 0)
                              /\ (b.comparePrice = NoPrice \/ b.comparePrice >= 0)
                              /\ (b.category = "" \/ b.category \in Categories),
                     !.sku = b.sku, !.stock = b.stock, !.flag = b.flag,
                     !.price = b.price, !.comparePrice = b.comparePrice,
                     !.images = b.images, !.category = b.category,
                     !.target = t]

\* the same bodies with the price, compare-at price and image fields varied
\* (one SKU; stock 1 or 0.5)
CatalogCreateBodies ==
    [sku : {"sku-1"}, stock : {Whole(1)} \cup FractionInputs, price : PriceInputs,
     comparePrice : ComparePriceInputs, images : ImageInputs,
     category : {"books"}]
CatalogUpdateBodies ==
    [sku : {""}, stock : {NoStock} \cup FractionInputs, flag : {"absent"},
     price : {NoPrice} \cup PriceInputs, comparePrice : ComparePriceInputs,
     images : {<<>>} \cup ImageInputs, category : {""}]

\* models/Product.js comparePrice validator: !value || value >= this.price;
\* thisPrice = NoPrice when `this` has no price (undefined: the comparison
\* is false)
comparePriceValidator(value, thisPrice) ==
    value = 0 \/ (thisPrice # NoPrice /\ value >= thisPrice)

\* document validation (create, save): validators run on the paths that
\* hold a value, with `this` the document
documentValidates(d) ==
    /\ d.stock >= 0
    /\ d.price >= 0
    /\ (d.comparePrice = NoPrice
          \/ (d.comparePrice >= 0 /\ comparePriceValidator(d.comparePrice, d.price)))

\* update validation (findByIdAndUpdate with runValidators): validators run
\* on the paths of the update, with `this` the query, which has no price
updateValidates(p) ==
    /\ (p.stock = NoStock \/ p.stock >= 0)
    /\ (p.price = NoPrice \/ p.price >= 0)
    /\ (p.comparePrice = NoPrice
          \/ (p.comparePrice >= 0 /\ comparePriceValidator(p.comparePrice, NoPrice)))

\* models/Product.js pre('save'): index of the first image marked primary
RECURSIVE findIndexPrimary(_, _)
findIndexPrimary(images, i) ==
    IF i > Len(images) THEN 0
    ELSE IF images[i] THEN i
    ELSE findIndexPrimary(images, i + 1)

\* models/Product.js pre('save') hook, lines 215-229
primaryImageHook(images) ==
    LET n == Cardinality({i \in 1..Len(images) : images[i]}) IN
    IF Len(images) = 0 THEN images
    ELSE IF n = 0 THEN [images EXCEPT ![1] = TRUE]
    ELSE IF n > 1
    THEN [i \in 1..Len(images) |-> i = findIndexPrimary(images, 1)]
    ELSE images

\* ids a client may put in a product path: 0 is malformed
ProductTargetInputs == 0..(Len(products) + 1)

StockTypes == {"number", "string"}
StockOperations == {"set", "add", "subtract", "absent", "multiply"}

(* ------------------------- protected routes ---------------------------- *)
\* what a client may send on each protected route
RouteParams(route) ==
    CASE route = "toggleUserStatus" ->
            {[NoParams EXCEPT !.target = t, !.flag = f] :
                t \in TargetInputs, f \in FlagInputs}
      [] route = "deleteUser" ->
            {[NoParams EXCEPT !.target = t] : t \in TargetInputs}
      [] route = "createProduct" -> {createSchema(b) : b \in CreateBodies}
      [] route = "updateProduct" ->
            {updateSchema(b, t) : b \in UpdateBodies, t \in ProductTargetInputs}
      [] route = "deleteProduct" ->
            {[NoParams EXCEPT !.target = t] : t \in ProductTargetInputs}
      [] route = "toggleProductStatus" ->
            {[NoParams EXCEPT !.target = t, !.flag = f] :
                t \in ProductTargetInputs, f \in FlagInputs}
      [] route = "updateStock" ->
            {[NoParams EXCEPT !.target = t, !.stock = n, !.stockType = ty,
                              !.op = o] :
                t \in ProductTargetInputs, n \in StockInputs,
                ty \in StockTypes, o \in StockOperations}
      [] OTHER -> {NoParams}

\* the product routes with the catalog bodies (the one product: id 1)
CatalogParams(route) ==
    CASE route = "createProduct" -> {createSchema(b) : b \in CatalogCreateBodies}
      [] route = "updateProduct" -> {updateSchema(b, 1) : b \in CatalogUpdateBodies}
      [] route = "toggleProductStatus" ->
            {[NoParams EXCEPT !.target = 1, !.flag = f] : f \in {"true", "false"}}
      [] route = "updateStock" ->
            {[NoParams EXCEPT !.target = 1, !.stock = n, !.stockType = "number",
                              !.op = o] :
                n \in {Whole(1)} \cup FractionInputs,
                o \in {"set", "add", "subtract"}}

\* the request runs its middleware chain (protect reads the account) and
\* either is answered by the first failing gate or reaches its handler
Enter(c, route, tok, p) ==
    LET g == RunGates(Stages(route), 1, NoUser, tok, p, users, now) IN
    /\ Idle(c)
    /\ IF ~g.ok
       THEN req' = [req EXCEPT ![c] =
                  [NoReq EXCEPT !.route = route, !.pc = "done", !.p = p,
                                !.res = [NoRes EXCEPT !.status = g.status,
                                                      !.msg = g.msg]]]
       ELSE /\ req' = [req EXCEPT ![c] =
                  [NoReq EXCEPT !.route = route, !.pc = "handler",
                                !.user = g.user, !.p = p]]
    /\ UNCHANGED <<users, products, now, env, conns, issued>>

(* ------------------------- authController.logout ----------------------- *)
\* lines 169-176: findByIdAndUpdate(req.user._id, { refreshToken: null })
Logout(c) ==
    /\ At(c, "logout", "handler")
    /\ users' = [users EXCEPT ![req[c].user.id].refreshToken = NoToken]
    /\ Done(c, "logout", 200, "Logout successful")
    /\ UNCHANGED <<products, now, env, conns, issued>>

(* ------------------------------ listings ------------------------------- *)
\* the default limits of the listings
DefaultProductLimit == 12
DefaultUserLimit == 10

\* const { page = 1, limit = ... } = req.query
pageOf(p) == IF p.page = NoPage THEN 1 ELSE p.page
limitOf(p, default) == IF p.limit = NoPage THEN default ELSE p.limit

\* totalPages computed by rounding down
mathFloor(a, b) == a \div b

\* Math.ceil(a / b) for a >= 0, b >= 1
mathCeil(a, b) == IF a % b = 0 THEN a \div b ELSE (a \div b) + 1

\* the pagination block: currentPage, totalPages, total, hasNextPage,
\* hasPrevPage
pagination(total, page, limit) ==
    LET totalPages == mathCeil(total, limit) IN
    [NoData EXCEPT !.total = total, !.currentPage = page,
                   !.totalPages = totalPages,
                   !.hasNextPage = page < totalPages,
                   !.hasPrevPage = page > 1]

\* getAllUsers lines 20-35: the filter built from role and isActive
userQuery(us, p) ==
    {i \in 1..Len(us) :
        /\ (p.role # "" => us[i].role = p.role)
        /\ (p.flag \in {"true", "false"} => us[i].isActive = (p.flag = "true"))}

\* the query as it would be without the isActive filter
productQueryAll(ps, cat) ==
    {i \in 1..Len(ps) : cat # "" => ps[i].category = cat}

\* { isActive: true } and, for a category listing, the lower-cased category
categoryToLowerCase(cat) == IF cat = "BOOKS" THEN "books" ELSE cat
productQuery(ps, cat) ==
    {i \in 1..Len(ps) : ps[i].isActive /\ (cat # "" => ps[i].category = cat)}

\* .sort('-createdAt').skip(skip).limit(limit): the documents of the page,
\* newest first (a later id is a later creation)
pageItems(ids, page, limit) ==
    LET skip == (page - 1) * limit IN
    {i \in ids : LET newer == Cardinality({j \in ids : j > i}) IN
                     newer >= skip /\ newer < skip + limit}

\* .skip(skip).limit(limit): how many documents the page holds
pageLength(total, page, limit) ==
    LET skip == (page - 1) * limit IN
    IF total <= skip THEN 0
    ELSE IF total - skip < limit THEN total - skip ELSE limit

\* query strings of the listings: productValidation.query wants page >= 1
\* and 1 <= limit <= 100
PageInputs == {NoPage} \cup 1..MaxPage
LimitInputs == {NoPage} \cup 1..MaxLimit
CategoryInputs == {"books", "BOOKS", "toys"}
querySchema(page, limit) ==
    [NoParams EXCEPT !.valid = /\ (page = NoPage \/ page >= 1)
                              /\ (limit = NoPage \/ (limit >= 1 /\ limit <= 100)),
                     !.page = page, !.limit = limit]

(* ------------------------- userController ------------------------------ *)
\* getAllUsers lines 37-59: countDocuments, find, and the pagination block
\* computed from the count
GetAllUsers(c) ==
    /\ At(c, "getAllUsers", "handler")
    /\ RespondData(c, "getAllUsers",
           pagination(Cardinality(userQuery(users, req[c].p)),
                      pageOf(req[c].p), limitOf(req[c].p, DefaultUserLimit)))
    /\ UNCHANGED <<users, products, now, env, conns, issued>>

GetUserStats(c) ==
    /\ At(c, "getUserStats", "handler")
    /\ Done(c, "getUserStats", 200, "")
    /\ UNCHANGED <<users, products, now, env, conns, issued>>

\* deleteUser as it would be without the check of lines 181-183
deleteUserCheckAllowSelf(us, user, target) ==
    IF target \notin 1..Len(us)
    THEN Reject(404, "User not found")
    ELSE IF user.id # target /\ user.role # "admin"
    THEN Reject(403, "Access denied. You can only delete your own account.")
    ELSE Pass(user)

\* deleteUser lines 169-183 on the loaded document
deleteUserCheck(us, user, target) ==
    IF target \notin 1..Len(us)
    THEN Reject(404, "User not found")
    ELSE IF user.id # target /\ user.role # "admin"
    THEN Reject(403, "Access denied. You can only delete your own account.")
    ELSE IF user.role = "admin" /\ user.id = target
    THEN Reject(400, "Admin cannot delete their own account")
    ELSE Pass(user)

DeleteUserLookup(c) ==
    LET r == deleteUserCheck(users, req[c].user, req[c].p.target) IN
    /\ At(c, "deleteUser", "handler")
    /\ IF ~r.ok
       THEN Fail(c, "deleteUser", r.status, r.msg)
       ELSE /\ req' = [req EXCEPT ![c].pc = "update"]
    /\ UNCHANGED <<users, products, now, env, conns, issued>>

\* lines 186-194: findByIdAndUpdate(id, { isActive: false, refreshToken: null })
DeleteUserUpdate(c) ==
    LET t == req[c].p.target IN
    /\ At(c, "deleteUser", "update")
    /\ users' = [users EXCEPT ![t].isActive = FALSE, ![t].refreshToken = NoToken]
    /\ Done(c, "deleteUser", 200, "User account deactivated successfully")
    /\ UNCHANGED <<products, now, env, conns, issued>>

\* toggleUserStatus lines 203-218
toggleUserStatusCheck(us, user, target, flag) ==
    IF flag \notin {"true", "false"}
    THEN Reject(400, "isActive field must be a boolean value")
    ELSE IF target \notin 1..Len(us)
    THEN Reject(404, "User not found")
    ELSE IF user.id = target
    THEN Reject(400, "Admin cannot change their own account status")
    ELSE Pass(user)

ToggleUserStatusLookup(c) ==
    LET t == req[c].p.target
        r == toggleUserStatusCheck(users, req[c].user, t, req[c].p.flag)
    IN
    /\ At(c, "toggleUserStatus", "handler")
    /\ IF ~r.ok
       THEN Fail(c, "toggleUserStatus", r.status, r.msg)
       ELSE /\ req' = [req EXCEPT ![c].pc = "save",
                                  ![c].doc = [NoDoc EXCEPT !.id = t, !.isActive = users[t].isActive]]
    /\ UNCHANGED <<users, products, now, env, conns, issued>>

\* lines 221-225 as they would be without the assignment of refreshToken
toggleUserStatusWriteKeepsToken(u, doc, isActive) ==
    [u EXCEPT !.isActive = IF isActive # doc.isActive THEN isActive ELSE @]

\* lines 221-225 and user.save(): save() writes the modified paths only;
\* isActive is modified when it differs from the loaded value, refreshToken
\* (not selected by findById) whenever it is assigned
toggleUserStatusWrite(u, doc, isActive) ==
    [u EXCEPT !.isActive = IF isActive # doc.isActive THEN isActive ELSE @,
              !.refreshToken = IF ~isActive THEN NoToken ELSE @]

ToggleUserStatusSave(c) ==
    LET t == req[c].doc.id
        isActive == req[c].p.flag = "true"
    IN
    /\ At(c, "toggleUserStatus", "save")
    /\ users' = [users EXCEPT ![t] = toggleUserStatusWrite(@, req[c].doc, isActive)]
    /\ Done(c, "toggleUserStatus", 200, "User account status changed")
    /\ UNCHANGED <<products, now, env, conns, issued>>

(* ------------------------- productController --------------------------- *)
\* createProduct lines 122-129: Product.findOne({ sku: sku.toUpperCase() })
CreateProductLookup(c) ==
    /\ At(c, "createProduct", "handler")
    /\ IF FindBySku(products, toUpperCase(req[c].p.sku)) # 0
       THEN Fail(c, "createProduct", 409, "Product with this SKU already exists")
       ELSE req' = [req EXCEPT ![c].pc = "create"]
    /\ UNCHANGED <<users, products, now, env, conns, issued>>

\* line 131: Product.create validates the document, runs the pre('save')
\* hook and inserts; the schema stores the SKU in upper case
CreateProductCreate(c) ==
    LET sku == toUpperCase(req[c].p.sku) IN
    /\ At(c, "createProduct", "create")
    /\ IF ~documentValidates(req[c].p)
       THEN /\ Fail(c, "createProduct", ValidationErrorStatus,
                    "Compare price should be greater than or equal to the selling price")
            /\ UNCHANGED products
       ELSE IF SkuIndexRejects(products, sku, 0)
       THEN /\ Fail(c, "createProduct", DuplicateKeyStatus, "Sku already exists")
            /\ UNCHANGED products
       ELSE /\ products' = Append(products,
                  [sku |-> sku, stock |-> req[c].p.stock, isActive |-> TRUE,
                   price |-> req[c].p.price,
                   comparePrice |-> req[c].p.comparePrice,
                   images |-> primaryImageHook(req[c].p.images),
                   category |-> req[c].p.category,
                   isFeatured |-> req[c].p.isFeatured])
            /\ Done(c, "createProduct", 201, "Product created successfully")
    /\ UNCHANGED <<users, now, env, conns, issued>>

GetProductStats(c) ==
    /\ At(c, "getProductStats", "handler")
    /\ Done(c, "getProductStats", 200, "")
    /\ UNCHANGED <<users, products, now, env, conns, issued>>

\* getAllProducts lines 46-47: Product.countDocuments(query)
GetAllProductsCount(c) ==
    /\ At(c, "getAllProducts", "handler")
    /\ req' = [req EXCEPT ![c].pc = "find",
                          ![c].doc = [NoDoc EXCEPT !.total =
                                         Cardinality(productQuery(products, ""))]]
    /\ UNCHANGED <<users, products, now, env, conns, issued>>

\* lines 51-79: Product.find and the response
GetAllProductsFind(c) ==
    /\ At(c, "getAllProducts", "find")
    /\ RespondData(c, "getAllProducts",
           [pagination(req[c].doc.total, pageOf(req[c].p),
                       limitOf(req[c].p, DefaultProductLimit))
               EXCEPT !.items = pageItems(productQuery(products, ""),
                                   pageOf(req[c].p),
                                   limitOf(req[c].p, DefaultProductLimit))])
    /\ UNCHANGED <<users, products, now, env, conns, issued>>

\* getProduct lines 93-101: Product.findOne({ _id, isActive: true })
GetProduct(c) ==
    LET t == req[c].p.target IN
    /\ At(c, "getProduct", "handler")
    /\ IF t \notin productQuery(products, "")
       THEN Fail(c, "getProduct", 404, "Product not found")
       ELSE RespondData(c, "getProduct", [NoData EXCEPT !.id = t, !.items = {t}])
    /\ UNCHANGED <<users, products, now, env, conns, issued>>

\* getFeaturedProducts lines 311-325: Product.find({ isActive, isFeatured })
DefaultFeaturedLimit == 8
GetFeaturedProducts(c) ==
    LET featured == {i \in productQuery(products, "") : products[i].isFeatured} IN
    /\ At(c, "getFeaturedProducts", "handler")
    /\ RespondData(c, "getFeaturedProducts",
           [NoData EXCEPT !.items =
               pageItems(featured, 1, limitOf(req[c].p, DefaultFeaturedLimit))])
    /\ UNCHANGED <<users, products, now, env, conns, issued>>

\* getProductsByCategory lines 344-346: Product.countDocuments(query)
GetProductsByCategoryCount(c) ==
    /\ At(c, "getProductsByCategory", "handler")
    /\ req' = [req EXCEPT ![c].pc = "find",
                          ![c].doc = [NoDoc EXCEPT !.total =
                             Cardinality(productQuery(products,
                                 categoryToLowerCase(req[c].p.category)))]]
    /\ UNCHANGED <<users, products, now, env, conns, issued>>

\* lines 348-371: Product.find; an empty page is answered 404
GetProductsByCategoryFind(c) ==
    LET matching == productQuery(products, categoryToLowerCase(req[c].p.category))
        found == Cardinality(matching)
        page == pageOf(req[c].p)
        limit == limitOf(req[c].p, DefaultProductLimit)
    IN
    /\ At(c, "getProductsByCategory", "find")
    /\ IF pageLength(found, page, limit) = 0
       THEN Fail(c, "getProductsByCategory", 404, "No products found in category")
       ELSE RespondData(c, "getProductsByCategory",
                [pagination(req[c].doc.total, page, limit)
                    EXCEPT !.items = pageItems(matching, page, limit)])
    /\ UNCHANGED <<users, products, now, env, conns, issued>>

\* updateProduct lines 149-153: Product.findById
UpdateProductLookup(c) ==
    LET t == req[c].p.target IN
    /\ At(c, "updateProduct", "handler")
    /\ IF t \notin 1..Len(products)
       THEN Fail(c, "updateProduct", 404, "Product not found")
       ELSE req' = [req EXCEPT ![c].pc =
                IF req[c].p.sku # "" /\ toUpperCase(req[c].p.sku) # products[t].sku
                THEN "skuCheck" ELSE "update"]
    /\ UNCHANGED <<users, products, now, env, conns, issued>>

\* lines 156-165: Product.findOne({ sku, _id: { $ne: id } })
UpdateProductSkuCheck(c) ==
    /\ At(c, "updateProduct", "skuCheck")
    /\ IF SkuIndexRejects(products, toUpperCase(req[c].p.sku), req[c].p.target)
       THEN Fail(c, "updateProduct", 409, "Product with this SKU already exists")
       ELSE req' = [req EXCEPT ![c].pc = "update"]
    /\ UNCHANGED <<users, products, now, env, conns, issued>>

\* the fields findByIdAndUpdate sets: those present in the validated body,
\* as sent (no pre('save') hook runs on an update)
updateProductWrite(d, p) ==
    [d EXCEPT !.sku = IF p.sku # "" THEN toUpperCase(p.sku) ELSE @,
              !.stock = IF p.stock # NoStock THEN p.stock ELSE @,
              !.isActive = IF p.flag = "absent" THEN @ ELSE p.flag = "true",
              !.price = IF p.price # NoPrice THEN p.price ELSE @,
              !.comparePrice = IF p.comparePrice # NoPrice THEN p.comparePrice ELSE @,
              !.images = IF p.images # <<>> THEN p.images ELSE @,
              !.category = IF p.category # "" THEN p.category ELSE @]

\* lines 174-188: Product.findByIdAndUpdate(id, updateData, { runValidators })
UpdateProductUpdate(c) ==
    LET t == req[c].p.target IN
    /\ At(c, "updateProduct", "update")
    /\ IF ~updateValidates(req[c].p)
       THEN /\ Fail(c, "updateProduct", ValidationErrorStatus,
                    "Compare price should be greater than or equal to the selling price")
            /\ UNCHANGED products
       ELSE IF req[c].p.sku # "" /\ SkuIndexRejects(products, toUpperCase(req[c].p.sku), t)
       THEN /\ Fail(c, "updateProduct", DuplicateKeyStatus, "Sku already exists")
            /\ UNCHANGED products
       ELSE /\ products' = [products EXCEPT ![t] = updateProductWrite(@, req[c].p)]
            /\ Done(c, "updateProduct", 200, "Product updated successfully")
    /\ UNCHANGED <<users, now, env, conns, issued>>

\* Product.findById: the document as loaded
loadProduct(ps, t) ==
    [NoDoc EXCEPT !.id = t, !.stock = ps[t].stock, !.isActive = ps[t].isActive,
                  !.price = ps[t].price, !.comparePrice = ps[t].comparePrice,
                  !.images = ps[t].images]

\* deleteProduct lines 197-201: Product.findById
DeleteProductLookup(c) ==
    /\ At(c, "deleteProduct", "handler")
    /\ IF req[c].p.target \notin 1..Len(products)
       THEN Fail(c, "deleteProduct", 404, "Product not found")
       ELSE req' = [req EXCEPT ![c].pc = "update",
                               ![c].doc = loadProduct(products, req[c].p.target)]
    /\ UNCHANGED <<users, products, now, env, conns, issued>>

\* deleteProduct as it would be with Product.findByIdAndDelete
DeleteProductRemove(c) ==
    /\ At(c, "deleteProduct", "update")
    /\ products' = [i \in 1..(Len(products) - 1) |->
                       IF i < req[c].p.target THEN products[i] ELSE products[i + 1]]
    /\ Done(c, "deleteProduct", 200, "Product deleted successfully")
    /\ UNCHANGED <<users, now, env, conns, issued>>

\* lines 204-212: findByIdAndUpdate(id, { isActive: false })
DeleteProductUpdate(c) ==
    /\ At(c, "deleteProduct", "update")
    /\ products' = [products EXCEPT ![req[c].p.target].isActive = FALSE]
    /\ Done(c, "deleteProduct", 200, "Product deleted successfully")
    /\ UNCHANGED <<users, now, env, conns, issued>>

\* toggleProductStatus lines 221-231
toggleProductStatusCheck(ps, target, flag) ==
    IF flag \notin {"true", "false"}
    THEN Reject(400, "isActive field must be a boolean value")
    ELSE IF target \notin 1..Len(ps)
    THEN Reject(404, "Product not found")
    ELSE Pass(NoUser)

\* product.save() of a loaded document with the fields `changed` set:
\* the pre('save') hook runs, and the paths whose value differs from the
\* loaded one are written
saveProduct(ps, loaded, changed) ==
    [ps EXCEPT ![loaded.id] =
        [@ EXCEPT !.stock = IF changed.stock # loaded.stock
                            THEN changed.stock ELSE @,
                  !.isActive = IF changed.isActive # loaded.isActive
                               THEN changed.isActive ELSE @,
                  !.images = IF primaryImageHook(loaded.images) # loaded.images
                             THEN primaryImageHook(loaded.images) ELSE @]]

ToggleProductStatusLookup(c) ==
    LET t == req[c].p.target
        r == toggleProductStatusCheck(products, t, req[c].p.flag)
    IN
    /\ At(c, "toggleProductStatus", "handler")
    /\ IF ~r.ok
       THEN Fail(c, "toggleProductStatus", r.status, r.msg)
       ELSE req' = [req EXCEPT ![c].pc = "save",
                               ![c].doc = loadProduct(products, t)]
    /\ UNCHANGED <<users, products, now, env, conns, issued>>

\* lines 233-235: product.isActive = isActive; product.save() writes the
\* path only when the value differs from the loaded one
ToggleProductStatusSave(c) ==
    LET t == req[c].doc.id
        isActive == req[c].p.flag = "true"
        changed == [req[c].doc EXCEPT !.isActive = isActive]
    IN
    /\ At(c, "toggleProductStatus", "save")
    /\ IF ~documentValidates(changed)
       THEN /\ Fail(c, "toggleProductStatus", ValidationErrorStatus,
                    "Compare price should be greater than or equal to the selling price")
            /\ UNCHANGED products
       ELSE /\ products' = saveProduct(products, req[c].doc, changed)
            /\ Done(c, "toggleProductStatus", 200, "Product status changed")
    /\ UNCHANGED <<users, now, env, conns, issued>>

\* the same checks with the lookup made first
updateStockCheckLookupFirst(ps, target, p) ==
    IF target \notin 1..Len(ps)
    THEN Reject(404, "Product not found")
    ELSE IF p.stockType # "number" \/ p.stock < 0
    THEN Reject(400, "Stock must be a positive number")
    ELSE IF p.op \notin {"set", "add", "subtract", "absent"}
    THEN Reject(400, "Operation must be one of: set, add, subtract")
    ELSE Pass(NoUser)

\* updateStock lines 257-271
updateStockCheck(ps, target, p) ==
    IF p.stockType # "number" \/ p.stock < 0
    THEN Reject(400, "Stock must be a positive number")
    ELSE IF p.op \notin {"set", "add", "subtract", "absent"}
    THEN Reject(400, "Operation must be one of: set, add, subtract")
    ELSE IF target \notin 1..Len(ps)
    THEN Reject(404, "Product not found")
    ELSE Pass(NoUser)

\* every operation treated as 'set'
newStockSetOnly(loaded, p) == p.stock

\* lines 274-285; an absent operation defaults to 'set'
newStock(loaded, p) ==
    CASE p.op \in {"set", "absent"} -> p.stock
      [] p.op = "add" -> loaded + p.stock
      [] p.op = "subtract" -> IF loaded - p.stock > 0 THEN loaded - p.stock ELSE 0

UpdateStockLookup(c) ==
    LET t == req[c].p.target
        r == updateStockCheck(products, t, req[c].p)
    IN
    /\ At(c, "updateStock", "handler")
    /\ IF ~r.ok
       THEN Fail(c, "updateStock", r.status, r.msg)
       ELSE /\ newStock(products[t].stock, req[c].p) <= Whole(MaxStock)  \* bound
            /\ req' = [req EXCEPT ![c].pc = "save",
                                  ![c].doc = loadProduct(products, t)]
    /\ UNCHANGED <<users, products, now, env, conns, issued>>

\* lines 287-289: product.stock = newStock; product.save()
UpdateStockSave(c) ==
    LET t == req[c].doc.id
        n == newStock(req[c].doc.stock, req[c].p)
        changed == [req[c].doc EXCEPT !.stock = n]
    IN
    /\ At(c, "updateStock", "save")
    /\ IF ~documentValidates(changed)
       THEN /\ Fail(c, "updateStock", ValidationErrorStatus,
                    "Compare price should be greater than or equal to the selling price")
            /\ UNCHANGED products
       ELSE /\ products' = saveProduct(products, req[c].doc, changed)
            /\ Done(c, "updateStock", 200, "Product stock updated successfully")
    /\ UNCHANGED <<users, now, env, conns, issued>>

Next ==
    \/ Tick
    \/ \E c \in Clients : Receive(c)
    \/ \E c \in Clients : Idle(c) /\ \E b \in RegisterBodies : RegisterLookup(c, b)
    \/ \E c \in Clients : RegisterAdminCheck(c)
    \/ \E c \in Clients : RegisterCreate(c)
    \/ \E c \in Clients : RegisterSave(c)
    \/ \E c \in Clients : Idle(c) /\ \E b \in LoginBodies : LoginLookup(c, b)
    \/ \E c \in Clients : LoginSave(c)
    \/ \E c \in Clients : Idle(c) /\ \E tok \in TokenInputs : RefreshLookup(c, tok)
    \/ \E c \in Clients : RefreshSave(c)
    \/ \E c \in Clients : Idle(c) /\
          \E route \in AccountRoutes, tok \in TokenInputs :
             \E p \in RouteParams(route) : Enter(c, route, tok, p)
    \/ \E c \in Clients : Logout(c)
    \/ \E c \in Clients : GetAllUsers(c)
    \/ \E c \in Clients : GetUserStats(c)
    \/ \E c \in Clients : DeleteUserLookup(c)
    \/ \E c \in Clients : DeleteUserUpdate(c)
    \/ \E c \in Clients : ToggleUserStatusLookup(c)
    \/ \E c \in Clients : ToggleUserStatusSave(c)

Spec == Init /\ [][Next]_vars

(* ------------------------- the admin-only routes ------------------------ *)
\* the store after an administrator (a@x.com) and a standard account
\* (b@x.com) registered in the first second
InitAdmin ==
    /\ users = << [email |-> [addr |-> "a@x.com", upper |-> FALSE],
                   password |-> Hash("Passw0rd1"), role |-> "admin",
                   isActive |-> TRUE, refreshToken |-> generateRefreshToken(1, 0),
                   name |-> "Ann"],
                  [email |-> [addr |-> "b@x.com", upper |-> FALSE],
                   password |-> Hash("Passw0rd1"), role |-> "user",
                   isActive |-> TRUE, refreshToken |-> generateRefreshToken(2, 0),
                   name |-> "Bob"] >>
    /\ products = <<>>
    /\ now = 0
    /\ env = "production"
    /\ issued = {[id |-> 1, iat |-> 0], [id |-> 2, iat |-> 0]}
    /\ req = [c \in Clients |-> NoReq]
    /\ conns = {"c1"}

NextAdmin ==
    \/ Tick
    \/ \E c \in Clients : Receive(c)
    \/ \E c \in Clients : Idle(c) /\
          \E route \in AdminOnlyRoutes, tok \in TokenInputs :
             \E p \in RouteParams(route) : Enter(c, route, tok, p)
    \/ \E c \in Clients : GetAllUsers(c)
    \/ \E c \in Clients : GetUserStats(c)
    \/ \E c \in Clients : ToggleUserStatusLookup(c)
    \/ \E c \in Clients : ToggleUserStatusSave(c)
    \/ \E c \in Clients : CreateProductLookup(c)
    \/ \E c \in Clients : CreateProductCreate(c)
    \/ \E c \in Clients : GetProductStats(c)
    \/ \E c \in Clients : UpdateProductLookup(c)
    \/ \E c \in Clients : UpdateProductSkuCheck(c)
    \/ \E c \in Clients : UpdateProductUpdate(c)
    \/ \E c \in Clients : DeleteProductLookup(c)
    \/ \E c \in Clients : DeleteProductUpdate(c)
    \/ \E c \in Clients : ToggleProductStatusLookup(c)
    \/ \E c \in Clients : ToggleProductStatusSave(c)
    \/ \E c \in Clients : UpdateStockLookup(c)
    \/ \E c \in Clients : UpdateStockSave(c)

SpecAdmin == InitAdmin /\ [][NextAdmin]_vars

(* ------------------------- concurrent creation -------------------------- *)
\* two clients at once, within one second: registrations and product creations
InitRace == InitStore /\ conns = Clients

NextRace ==
    \/ \E c \in Clients : Receive(c)
    \/ \E c \in Clients : Idle(c) /\ \E b \in RegisterBodies : RegisterLookup(c, b)
    \/ \E c \in Clients : RegisterAdminCheck(c)
    \/ \E c \in Clients : RegisterCreate(c)
    \/ \E c \in Clients : RegisterSave(c)
    \/ \E c \in Clients : Idle(c) /\
          \E tok \in TokenInputs, p \in RouteParams("createProduct") :
             Enter(c, "createProduct", tok, p)
    \/ \E c \in Clients : CreateProductLookup(c)
    \/ \E c \in Clients : CreateProductCreate(c)

SpecRace == InitRace /\ [][NextRace]_vars

(* ------------------------------ properties ------------------------------ *)
InFlight(c) == req[c].pc \notin {"idle", "done"}
Answered(c, route, status) ==
    /\ req[c].route = route
    /\ req[c].pc = "done"
    /\ req[c].res.status = status
EmailPresent(us, e) == \E i \in 1..Len(us) : us[i].email = e
SkuPresent(ps, sku) == \E i \in 1..Len(ps) : ps[i].sku = sku

\* C1: a registration request that passed the validator and whose lower-cased
\* email is already in the account store is answered 409 Conflict, and the
\* account store is left as it was (whether the handler's lookup or the
\* store's unique index finds the duplicate).
C1_DuplicateEmailConflict ==
    [][\A c \in Clients :
         /\ Idle(c) =>
              \A b \in RegisterBodies :
                 (/\ RegisterLookup(c, b)
                  /\ b.password # "weak"
                  /\ EmailPresent(users, [b.email EXCEPT !.upper = FALSE]))
                 => (/\ req'[c].pc = "done"
                     /\ req'[c].res.status = 409
                     /\ users' = users)
         /\ (RegisterCreate(c) /\ EmailPresent(users, req[c].p.email))
              => (/\ req'[c].pc = "done"
                  /\ req'[c].res.status = 409
                  /\ users' = users)]_vars

\* a registration was just refused by the handler's lookup
C1_Witness ==
    \E c \in Clients :
       /\ Answered(c, "register", 409)
       /\ req[c].res.msg = "User with this email already exists"
       /\ Len(users) >= 1

\* C2: when a refresh token is issued for an account (by register, login or
\* refresh), every refresh token issued for that account before is refused
\* with 401 by a refresh request made afterwards.
C2_SecondIssuanceInvalidatesFirst ==
    [][\A c \in Clients :
         (RegisterSave(c) \/ LoginSave(c) \/ RefreshSave(c)) =>
            \A q \in issued :
               q.id = req[c].doc.id =>
                  LET first == generateRefreshToken(q.id, q.iat)
                      r == refreshCheck(first, users', now')
                  IN ~r.ok /\ r.status = 401]_vars

\* C3: the deactivating write (deleteUser, toggleUserStatus with
\* isActive=false) leaves the account inactive with no stored refresh token;
\* an inactive account holds no refresh token; and a refresh request naming
\* an inactive account is answered 401, whichever token it presents.
C3_DeactivationClearsRefreshToken ==
    /\ [](\A i \in 1..Len(users) :
             ~users[i].isActive => users[i].refreshToken = NoToken)
    /\ [][\A c \in Clients :
            /\ DeleteUserUpdate(c) =>
                 (/\ ~users'[req[c].p.target].isActive
                  /\ users'[req[c].p.target].refreshToken = NoToken)
            /\ (ToggleUserStatusSave(c) /\ req[c].p.flag = "false") =>
                 (/\ ~users'[req[c].doc.id].isActive
                  /\ users'[req[c].doc.id].refreshToken = NoToken)
            /\ Idle(c) =>
                 \A tok \in TokenInputs :
                    (/\ RefreshLookup(c, tok)
                     /\ tok.id \in 1..Len(users)
                     /\ ~users[tok.id].isActive)
                    => (req'[c].pc = "done" /\ req'[c].res.status = 401)]_vars

\* a refresh request was refused while a deactivated account's last refresh
\* token, not yet expired, is no longer accepted
C3_Witness ==
    \E c \in Clients, q \in issued :
       /\ Answered(c, "refreshToken", 401)
       /\ ~users[q.id].isActive
       /\ users[q.id].refreshToken = NoToken
       /\ JwtVerify(generateRefreshToken(q.id, q.iat), JWT_REFRESH_SECRET, now) = "ok"
       /\ refreshCheck(generateRefreshToken(q.id, q.iat), users, now).status = 401

\* C4: on every route behind protect, the gate chain lets a request through
\* only if it carries a token, the token verifies (signature, expiry), the
\* account it names exists and is active, and then that account is attached;
\* any other request is answered 401; and a request in a handler of such a
\* route has an account attached.
C4_ProtectGate ==
    /\ \A c \in Clients :
          (InFlight(c) /\ req[c].route \in AccountRoutes)
             => req[c].user.id \in 1..Len(users)
    /\ (\A c \in Clients : req[c].pc = "idle") =>
          \A route \in AccountRoutes, tok \in TokenInputs :
             \A p \in RouteParams(route) :
                LET g == RunGates(Stages(route), 1, NoUser, tok, p, users, now)
                    authentic ==
                       /\ tok # NoToken
                       /\ tok.secret = JWT_SECRET
                       /\ now < tok.exp
                       /\ tok.id \in 1..Len(users)
                       /\ users[tok.id].isActive
                IN /\ g.ok => (authentic /\ g.user.id = tok.id
                                 /\ g.user.role = users[tok.id].role)
                   /\ ~authentic => (~g.ok /\ g.status = 401)

\* protect refused the still valid access token of a deactivated account
C4_Witness ==
    \E c \in Clients :
       /\ req[c].route \in AccountRoutes
       /\ req[c].pc = "done"
       /\ req[c].res.status = 401
       /\ req[c].res.msg = "User account is deactivated."

\* C5: a request in a handler of an admin-only route has an administrator
\* attached; on every admin-only route the gate chain passes only
\* administrators and answers 403 to an authenticated account of another
\* role; authorize itself answers 401 when no account is attached.
C5_AdminOnly ==
    /\ \A c \in Clients :
          (InFlight(c) /\ req[c].route \in AdminOnlyRoutes)
             => (/\ req[c].user.role = "admin"
                 /\ req[c].user.id \in 1..Len(users)
                 /\ users[req[c].user.id].role = "admin")
    /\ authorize({"admin"}, NoUser).status = 401
    /\ (\A c \in Clients : req[c].pc = "idle") =>
          \A route \in AdminOnlyRoutes, tok \in TokenInputs :
             \A p \in RouteParams(route) :
                LET g == RunGates(Stages(route), 1, NoUser, tok, p, users, now)
                    authentic ==
                       /\ tok # NoToken
                       /\ tok.secret = JWT_SECRET
                       /\ now < tok.exp
                       /\ tok.id \in 1..Len(users)
                       /\ users[tok.id].isActive
                IN /\ g.ok => (authentic /\ users[tok.id].role = "admin")
                   /\ (authentic /\ users[tok.id].role # "admin")
                         => (~g.ok /\ g.status = 403)

\* a product route refused an authenticated standard account
C5_Witness ==
    \E c \in Clients :
       /\ req[c].route \in ProductRoutes
       /\ req[c].pc = "done"
       /\ req[c].res.status = 403

\* C6: a login with a wrong password for an existing account gets the same
\* status and the same message as a login with an email that matches no
\* account.
C6_LoginEnumerationResistance ==
    \A b \in LoginBodies :
       LET id == FindByEmail(users, toLowerCase(b.email)) IN
       (id # 0 /\ ~matchPassword(b.password, users[id].password)) =>
          LET wrong == loginCheck(users, id, b.password)
              nobody == loginCheck(users, 0, b.password)
          IN /\ wrong.status = 401
             /\ wrong.status = nobody.status
             /\ wrong.msg = nobody.msg

\* C7: no two accounts share an email and no two products share a SKU; a
\* creation whose key another request stored after this one's existence
\* check creates nothing and is answered 409.
C7_ConcurrentDuplicate ==
    /\ [](/\ \A i, j \in 1..Len(users) :
               users[i].email = users[j].email => i = j
          /\ \A i, j \in 1..Len(products) :
               products[i].sku = products[j].sku => i = j)
    /\ [][\A c \in Clients :
            /\ (RegisterCreate(c) /\ EmailPresent(users, req[c].p.email))
                 => (/\ users' = users
                     /\ req'[c].pc = "done"
                     /\ req'[c].res.status = 409)
            /\ (CreateProductCreate(c)
                  /\ SkuPresent(products, toUpperCase(req[c].p.sku)))
                 => (/\ products' = products
                     /\ req'[c].pc = "done"
                     /\ req'[c].res.status = 409)]_vars

\* two registrations raced: one created the account, the store's unique
\* index refused the other
C7_Witness ==
    \E c, d \in Clients :
       /\ Answered(c, "register", 201)
       /\ Answered(d, "register", 409)
       /\ req[d].res.msg = "Email already exists"
       /\ Len(users) = 1

\* C8: a refresh request without a token is answered 400; with a token that
\* does not verify, names no account, differs from the account's stored
\* refresh token or belongs to an inactive account, 401; otherwise the
\* handler stores a newly issued refresh token and returns the new pair.
C8_RefreshContract ==
    [][\A c \in Clients :
         /\ Idle(c) =>
              \A tok \in TokenInputs :
                 RefreshLookup(c, tok) =>
                    IF tok = NoToken
                    THEN req'[c].pc = "done" /\ req'[c].res.status = 400
                    ELSE IF \/ tok.secret # JWT_REFRESH_SECRET
                            \/ now >= tok.exp
                            \/ tok.id \notin 1..Len(users)
                            \/ users[tok.id].refreshToken # tok
                            \/ ~users[tok.id].isActive
                    THEN req'[c].pc = "done" /\ req'[c].res.status = 401
                    ELSE /\ req'[c].pc = "save"
                         /\ req'[c].route = "refreshToken"
                         /\ req'[c].doc.id = tok.id
         /\ RefreshSave(c) =>
              LET id == req[c].doc.id IN
              /\ users'[id].refreshToken = generateRefreshToken(id, now)
              /\ req'[c].pc = "done"
              /\ req'[c].res.status = 200
              /\ req'[c].res.refreshToken = users'[id].refreshToken
              /\ req'[c].res.accessToken = generateAccessToken(id, now)]_vars

\* a refresh succeeded and the pair it returned is the stored one
C8_Witness ==
    \E c \in Clients, i \in 1..Len(users) :
       /\ Answered(c, "refreshToken", 200)
       /\ req[c].res.refreshToken # NoToken
       /\ users[i].refreshToken = req[c].res.refreshToken

\* C9 as stated: an account is created with role admin only when the
\* registration asked for it, the environment is not production and no
\* administrator exists at that moment.
C9_AdminOnlyNonProductionFirst ==
    [][\A c \in Clients :
         (RegisterCreate(c) /\ Len(users') = Len(users) + 1) =>
            (users'[Len(users')].role = "admin" =>
                (/\ req[c].p.role = "admin"
                 /\ env # "production"
                 /\ ~ExistsAdmin(users)))]_vars

\* C9 amended: an account is created with role admin exactly when the
\* registration asked for it and either NODE_ENV is development or no
\* administrator exists; every other registration creates role user.
C9_AdminWhenDevelopmentOrFirst ==
    [][\A c \in Clients :
         (RegisterCreate(c) /\ Len(users') = Len(users) + 1) =>
            /\ users'[Len(users')].role \in {"admin", "user"}
            /\ users'[Len(users')].role = "admin" <=>
                 (/\ req[c].p.role = "admin"
                  /\ (env = "development" \/ ~ExistsAdmin(users)))]_vars

\* in production, the first registration that asked for it became admin
C9_Witness ==
    /\ env = "production"
    /\ \E c \in Clients : Answered(c, "register", 201)
    /\ Len(users) = 2
    /\ users[1].role = "user"
    /\ users[2].role = "admin"

\* C10: deleteUser and toggleUserStatus by an administrator on their own
\* account end with a 4xx answer at the handler's check, before any write:
\* the account store (active flag and refresh token included) is unchanged,
\* and no such request reaches the writing step.
C10_NoSelfDeactivation ==
    [][\A c \in Clients :
         /\ (/\ DeleteUserLookup(c)
             /\ req[c].user.role = "admin"
             /\ req[c].p.target = req[c].user.id)
              => (/\ req'[c].pc = "done"
                  /\ req'[c].res.status \in 400..499
                  /\ users' = users)
         /\ (/\ ToggleUserStatusLookup(c)
             /\ req[c].p.target = req[c].user.id)
              => (/\ req'[c].pc = "done"
                  /\ req'[c].res.status \in 400..499
                  /\ users' = users)
         /\ DeleteUserUpdate(c) =>
              ~(req[c].user.role = "admin" /\ req[c].p.target = req[c].user.id)
         /\ ToggleUserStatusSave(c) => req[c].doc.id # req[c].user.id]_vars

\* an administrator's deleteUser on their own account was refused and the
\* account is still active
C10_Witness ==
    \E c \in Clients, i \in 1..Len(users) :
       /\ Answered(c, "deleteUser", 400)
       /\ req[c].res.msg = "Admin cannot delete their own account"
       /\ users[i].role = "admin"
       /\ users[i].isActive

(* ------------------------------ the catalog ----------------------------- *)
\* one administrator working on one product, with the price, compare-at
\* price, image and fractional stock inputs; the bodies carry no sku, so
\* updateProduct never enters its SKU check (lines 156-165)
CatalogRoutes == {"createProduct", "updateProduct", "toggleProductStatus", "updateStock"}

NextCatalog ==
    \/ \E c \in conns : Receive(c)
    \/ \E c \in conns : Idle(c) /\
          \E route \in CatalogRoutes, tok \in TokenInputs :
             \E p \in CatalogParams(route) : Enter(c, route, tok, p)
    \/ \E c \in conns : CreateProductLookup(c)
    \/ \E c \in conns : CreateProductCreate(c)
    \/ \E c \in conns : UpdateProductLookup(c)
    \/ \E c \in conns : UpdateProductUpdate(c)
    \/ \E c \in conns : ToggleProductStatusLookup(c)
    \/ \E c \in conns : ToggleProductStatusSave(c)
    \/ \E c \in conns : UpdateStockLookup(c)
    \/ \E c \in conns : UpdateStockSave(c)

SpecCatalog == InitAdmin /\ [][NextCatalog]_vars

\* C11: every stored product that has a compare-at price (a comparePrice
\* that is present and not the falsy 0) has comparePrice >= price.
\* Refuted: PUT {price: 2} on a product stored with price 1 and
\* comparePrice 1 is accepted, because the update validators run only on
\* the paths of the update.
C11_ComparePriceAtLeastPrice ==
    \A i \in 1..Len(products) :
        products[i].comparePrice \notin {NoPrice, 0}
            => products[i].comparePrice >= products[i].price

\* C12: every stored product with a non-empty image list has exactly one
\* image marked primary.
\* Refuted: updateProduct stores the image list as sent, with no or two
\* primaries, because findByIdAndUpdate runs no pre('save') hook.
C12_ExactlyOnePrimaryImage ==
    \A i \in 1..Len(products) :
        Len(products[i].images) > 0
            => Cardinality({j \in 1..Len(products[i].images) :
                               products[i].images[j]}) = 1

\* C15: every stored product's stock is a non-negative integer.
\* Refuted: PATCH /:id/stock {stock: 0.5} is accepted, because updateStock
\* tests typeof stock === 'number' and the schema has no integer validator.
C15_StockNonNegativeInteger ==
    \A i \in 1..Len(products) :
        products[i].stock >= 0 /\ IsInteger(products[i].stock)

\* C13: an updateStock request that reaches its save is answered 200 and
\* leaves the product's stock at n for 'set' (and for no operation), at
\* s + n for 'add' and at max(0, s - n) for 'subtract', where s is the
\* stock before the request and n the quantity sent.
C13_UpdateStockArithmetic ==
    [][\A c \in Clients :
          At(c, "updateStock", "save") /\ req'[c].pc = "done" =>
             LET t == req[c].p.target
                 s == products[t].stock
                 n == req[c].p.stock
                 op == req[c].p.op
             IN
             /\ req'[c].res.status = 200
             /\ op \in {"set", "absent"} => products'[t].stock = n
             /\ op = "add" => products'[t].stock = s + n
             /\ op = "subtract" =>
                   /\ products'[t].stock >= 0
                   /\ products'[t].stock >= s - n
                   /\ products'[t].stock \in {0, s - n}
             /\ \A i \in 1..Len(products) : i # t => products'[i] = products[i]]_vars

\* a subtraction of more than the stock held has been answered 200 and
\* left the stock at 0
C13_Witness ==
    \E c \in Clients :
        /\ Answered(c, "updateStock", 200)
        /\ req[c].p.op = "subtract"
        /\ req[c].p.stock > req[c].doc.stock
        /\ products[req[c].p.target].stock = 0

\* C14: an updateStock request whose stock is negative or not a number, or
\* whose operation is none of set, add, subtract, is answered 400 by the
\* handler's first step and leaves the products unchanged, also when the
\* identifier names no product (the checks come before the lookup, so the
\* answer is 400 and not 404).
C14_UpdateStockRejects ==
    [][\A c \in Clients :
          /\ At(c, "updateStock", "handler")
          /\ \/ req[c].p.stockType # "number"
             \/ req[c].p.stock < 0
             \/ req[c].p.op \notin {"set", "add", "subtract", "absent"}
          /\ req'[c] # req[c]
          => /\ req'[c].pc = "done"
             /\ req'[c].res.status = 400
             /\ products' = products]_vars

\* a request with a negative stock for an identifier that names no product
\* has been answered 400
C14_Witness ==
    \E c \in Clients :
        /\ Answered(c, "updateStock", 400)
        /\ req[c].p.target \notin 0..Len(products)
        /\ req[c].p.stockType = "number"
        /\ req[c].p.stock < 0

(* ------------------------------ the listings ---------------------------- *)
ListingRoutes == {"getAllProducts", "getProductsByCategory", "getAllUsers"}

ListingParams(route) ==
    CASE route = "getAllProducts" ->
            {querySchema(pg, l) : pg \in PageInputs \cup {0}, l \in LimitInputs}
      [] route = "getProductsByCategory" ->
            {[NoParams EXCEPT !.page = pg, !.limit = l, !.category = cat] :
                pg \in PageInputs, l \in LimitInputs, cat \in CategoryInputs}
      [] route = "getAllUsers" ->
            {[NoParams EXCEPT !.page = pg, !.limit = l, !.role = r, !.flag = f] :
                pg \in PageInputs, l \in LimitInputs,
                r \in {"", "admin", "user"}, f \in {"", "true", "false"}}
      [] route = "createProduct" -> {createSchema(b) : b \in CreateBodies}
      [] route = "toggleProductStatus" ->
            {[NoParams EXCEPT !.target = t, !.flag = f] :
                t \in ProductTargetInputs, f \in {"true", "false"}}

NextListing ==
    \/ \E c \in conns : Receive(c)
    \/ \E c \in conns : Idle(c) /\
          \E route \in ListingRoutes \cup {"createProduct", "toggleProductStatus"},
             tok \in TokenInputs :
             \E p \in ListingParams(route) : Enter(c, route, tok, p)
    \/ \E c \in conns : GetAllUsers(c)
    \/ \E c \in conns : GetAllProductsCount(c)
    \/ \E c \in conns : GetAllProductsFind(c)
    \/ \E c \in conns : GetProductsByCategoryCount(c)
    \/ \E c \in conns : GetProductsByCategoryFind(c)
    \/ \E c \in conns : CreateProductLookup(c)
    \/ \E c \in conns : CreateProductCreate(c)
    \/ \E c \in conns : ToggleProductStatusLookup(c)
    \/ \E c \in conns : ToggleProductStatusSave(c)

SpecListing == InitAdmin /\ [][NextListing]_vars

\* C16: every listing response (products, products of a category, users)
\* for page p >= 1 and limit L >= 1 that reports a total T reports the page
\* asked for, totalPages = the least n with n * L >= T (the ceiling of
\* T / L), hasNextPage = (p < totalPages) and hasPrevPage = (p > 1), and T
\* is the number of stored documents the query matches.
C16_Pagination ==
    \A c \in Clients :
        (req[c].pc = "done" /\ req[c].route \in ListingRoutes
            /\ req[c].res.status = 200) =>
        LET d == req[c].res.data
            T == d.total
            p == IF req[c].p.page = NoPage THEN 1 ELSE req[c].p.page
            L == IF req[c].p.limit # NoPage THEN req[c].p.limit
                 ELSE IF req[c].route = "getAllUsers" THEN 10 ELSE 12
        IN
        /\ p >= 1 /\ L >= 1
        /\ d.currentPage = p
        /\ d.totalPages >= 0
        /\ d.totalPages * L >= T
        /\ (d.totalPages > 0 => (d.totalPages - 1) * L < T)
        /\ d.hasNextPage = (p < d.totalPages)
        /\ d.hasPrevPage = (p > 1)
        /\ req[c].route = "getAllUsers" =>
              T = Cardinality({i \in 1..Len(users) :
                     /\ req[c].p.role \in {"", users[i].role}
                     /\ req[c].p.flag = "true" => users[i].isActive
                     /\ req[c].p.flag = "false" => ~users[i].isActive})
        /\ req[c].route # "getAllUsers" =>
              T = Cardinality({i \in 1..Len(products) :
                     /\ products[i].isActive
                     /\ req[c].route = "getProductsByCategory" =>
                           \/ products[i].category = req[c].p.category
                           \/ (products[i].category = "books"
                                 /\ req[c].p.category = "BOOKS")})

\* the last of two pages of a category has been listed: the total is a
\* multiple of the limit, there is a previous page and no next page
C16_Witness ==
    \E c \in Clients :
        /\ Answered(c, "getProductsByCategory", 200)
        /\ req[c].res.data.total = 2
        /\ req[c].p.limit = 1
        /\ req[c].res.data.currentPage = 2
        /\ req[c].res.data.totalPages = 2
        /\ ~req[c].res.data.hasNextPage
        /\ req[c].res.data.hasPrevPage

(* ---------------------- profile and password change --------------------- *)
ProfileParams(route) ==
    CASE route = "getProfile" -> {NoParams}
      [] route = "changePassword" ->
            {changePasswordSchema(b) : b \in ChangePasswordBodies}

NextProfile ==
    \/ Tick
    \/ \E c \in conns : Receive(c)
    \/ \E c \in conns : Idle(c) /\ \E b \in RegisterBodies : RegisterLookup(c, b)
    \/ \E c \in conns : RegisterAdminCheck(c)
    \/ \E c \in conns : RegisterCreate(c)
    \/ \E c \in conns : RegisterSave(c)
    \/ \E c \in conns : Idle(c) /\ \E b \in LoginBodies : LoginLookup(c, b)
    \/ \E c \in conns : LoginSave(c)
    \/ \E c \in conns : Idle(c) /\
          \E route \in {"getProfile", "changePassword"}, tok \in TokenInputs :
             \E p \in ProfileParams(route) : Enter(c, route, tok, p)
    \/ \E c \in conns : GetProfile(c)
    \/ \E c \in conns : ChangePasswordLookup(c)
    \/ \E c \in conns : ChangePasswordSave(c)

SpecProfile == Init /\ [][NextProfile]_vars

\* C17: the email is case-insensitive end to end. Every stored email is in
\* lower case; a login that types the email of an active account in any
\* letter case with the account's password finds that account and is
\* answered 200 with an access token for it; a getProfile request with an
\* unexpired access token of an active account reaches the handler as that
\* account and is answered 200 with the account's id, stored email and role.
C17_EmailCaseInsensitive ==
    /\ [](\A i \in 1..Len(users) : ~users[i].email.upper)
    /\ [][\A c \in Clients :
            /\ Idle(c) =>
                 \A b \in LoginBodies, i \in 1..Len(users) :
                    ( /\ LoginLookup(c, b)
                      /\ users[i].email.addr = b.email.addr
                      /\ users[i].isActive
                      /\ users[i].password = <<"bcrypt", b.password>> )
                    => (req'[c].pc = "save" /\ req'[c].doc.id = i)
            /\ (At(c, "login", "save") /\ req'[c] # req[c]) =>
                 /\ req'[c].pc = "done"
                 /\ req'[c].res.status = 200
                 /\ req'[c].res.accessToken.id = req[c].doc.id
                 /\ req'[c].res.accessToken.secret = JWT_SECRET
                 /\ req'[c].res.accessToken.exp > now
            /\ Idle(c) =>
                 \A tok \in TokenInputs :
                    ( /\ Enter(c, "getProfile", tok, NoParams)
                      /\ tok.secret = JWT_SECRET
                      /\ tok.exp > now
                      /\ tok.id \in 1..Len(users)
                      /\ users[tok.id].isActive )
                    => (req'[c].pc = "handler" /\ req'[c].user.id = tok.id)
            /\ (At(c, "getProfile", "handler") /\ req'[c] # req[c]) =>
                 /\ req'[c].pc = "done"
                 /\ req'[c].res.status = 200
                 /\ req'[c].res.data.id = req[c].user.id
                 /\ req'[c].res.data.email = users[req[c].user.id].email
                 /\ req'[c].res.data.role = users[req[c].user.id].role]_vars

\* a login typed in capital letters has been answered 200 with an access
\* token for the account registered under that address
C17_Witness ==
    \E c \in Clients, i \in 1..Len(users) :
        /\ Answered(c, "login", 200)
        /\ req[c].p.typed.upper
        /\ users[i].email = [addr |-> req[c].p.typed.addr, upper |-> FALSE]
        /\ req[c].res.accessToken = generateAccessToken(i, now)

\* C20: changePassword replaces the stored password only when the current
\* password sent matches it. A request whose current password does not
\* match is answered 400 and changes no account; and whenever an account's
\* password changes, it is by a changePassword request of that account
\* whose current password matched, and the new value is the hash of the new
\* password sent.
C20_ChangePasswordOnlyOnMatch ==
    [][/\ \A c \in Clients :
            ( /\ At(c, "changePassword", "handler")
              /\ req'[c] # req[c]
              /\ users[req[c].user.id].password # <<"bcrypt", req[c].p.password>> )
            => /\ req'[c].pc = "done"
               /\ req'[c].res.status = 400
               /\ users' = users
       /\ \A i \in 1..Len(users) :
            users'[i].password # users[i].password =>
               \E c \in Clients :
                  /\ At(c, "changePassword", "save")
                  /\ req[c].user.id = i
                  /\ users[i].password = <<"bcrypt", req[c].p.password>>
                  /\ users'[i].password = <<"bcrypt", req[c].p.newPassword>>
                  /\ req'[c].res.status = 200]_vars

\* a change with a wrong current password has been answered 400 and the
\* account still has its old password and not the new one
C20_Witness ==
    \E c \in Clients :
        /\ Answered(c, "changePassword", 400)
        /\ req[c].res.msg = "Current password is incorrect"
        /\ req[c].p.password = "Passw0rd2"
        /\ users[req[c].doc.id].password = <<"bcrypt", "Passw0rd1">>
        /\ users[req[c].doc.id].password # <<"bcrypt", req[c].p.newPassword>>

(* --------------------------- order of the stages ------------------------ *)
\* the admin-only routes registered with a validator of the path id, of the
\* body
IdValidated == {"toggleUserStatus", "updateProduct", "deleteProduct",
                "toggleProductStatus", "updateStock"}
BodyValidated == {"createProduct", "updateProduct"}
\* the three ways a request can fail before its handler
FailsValidator(route, p) ==
    \/ route \in IdValidated /\ p.target = 0
    \/ route \in BodyValidated /\ ~p.valid
FailsAuthentication(tok) ==
    \/ tok.secret # JWT_SECRET
    \/ tok.exp <= now
    \/ tok.id \notin 1..Len(users)
    \/ ~users[tok.id].isActive
FailsAuthorization(tok) == users[tok.id].role # "admin"

\* C18 as stated: the validator is the first stage, so a request that fails
\* the validator is answered 400 whatever its token.
\* Refuted: the routers register protect and authorize with router.use
\* before the routes, so a request with a bad body and no token gets 401.
C18_ValidatorFirst ==
    [][\A c \in Clients :
          (Idle(c) /\ req'[c].route \in AdminOnlyRoutes) =>
             \A tok \in TokenInputs :
                ( /\ Enter(c, req'[c].route, tok, req'[c].p)
                  /\ FailsValidator(req'[c].route, req'[c].p) )
                => (req'[c].pc = "done" /\ req'[c].res.status = 400)]_vars

\* C18: on every admin-only route the stages run in the order
\* authentication gate, authorization gate, validator, handler: a request
\* (the step from idle that sends it, with the route and payload the
\* request record then holds) is answered 401 when it fails authentication,
\* else 403 when it fails authorization, else 400 when it fails the
\* validator, and reaches the handler only when it fails none.
C18_AuthenticationFirst ==
    [][\A c \in Clients :
          (Idle(c) /\ req'[c].route \in AdminOnlyRoutes) =>
             \A tok \in TokenInputs :
                Enter(c, req'[c].route, tok, req'[c].p) =>
                   IF FailsAuthentication(tok)
                   THEN req'[c].pc = "done" /\ req'[c].res.status = 401
                   ELSE IF FailsAuthorization(tok)
                   THEN req'[c].pc = "done" /\ req'[c].res.status = 403
                   ELSE IF FailsValidator(req'[c].route, req'[c].p)
                   THEN req'[c].pc = "done" /\ req'[c].res.status = 400
                   ELSE req'[c].pc = "handler"]_vars

\* a request that fails both the validator and the authentication gate has
\* been answered 401
C18_Witness ==
    \E c \in Clients :
        /\ req[c].pc = "done"
        /\ req[c].route \in AdminOnlyRoutes
        /\ FailsValidator(req[c].route, req[c].p)
        /\ req[c].res.status = 401

(* ------------------------- non-operational errors ----------------------- *)
\* errors that are none of the operational kinds: the store is unreachable,
\* a handler dereferences null
Faults ==
    {[name |-> "MongoNetworkError", code |-> 0,
      message |-> "connect ECONNREFUSED 127.0.0.1:27017"],
     [name |-> "TypeError", code |-> 0,
      message |-> "Cannot read properties of null"]}

\* middleware/errorHandler.js handleError: statusCode 0 stands for undefined
handleError(err) ==
    IF err.name = "CastError"
    THEN [statusCode |-> 404, message |-> "Resource not found. Invalid ID format."]
    ELSE IF err.code = 11000
    THEN [statusCode |-> DuplicateKeyStatus, message |-> "already exists"]
    ELSE IF err.name = "ValidationError"
    THEN [statusCode |-> ValidationErrorStatus, message |-> err.message]
    ELSE IF err.name = "JsonWebTokenError"
    THEN [statusCode |-> 401, message |-> "Invalid token. Please log in again."]
    ELSE IF err.name = "TokenExpiredError"
    THEN [statusCode |-> 401,
          message |-> "Your token has expired. Please log in again."]
    ELSE [statusCode |-> 0, message |-> err.message]

\* errorHandler: res.status(error.statusCode || 500) with
\* error.message || 'Internal Server Error'
errorHandler(err) ==
    LET error == handleError(err) IN
    [status |-> IF error.statusCode = 0 THEN 500 ELSE error.statusCode,
     msg |-> IF error.message = "" THEN "Internal Server Error" ELSE error.message]

\* middleware/auth.js lines 22-48: User.findById throws inside the inner
\* try; the catch answers every error that is not a JWT error with 401
ProtectFault(c, route, tok, p) ==
    /\ Idle(c)
    /\ Stages(route)[1] = "protect"
    /\ tok # NoToken
    /\ JwtVerify(tok, JWT_SECRET, now) = "ok"
    /\ req' = [req EXCEPT ![c] =
          [NoReq EXCEPT !.route = route, !.pc = "done", !.p = p,
                        !.res = [NoRes EXCEPT !.status = 401,
                                    !.msg = "Token verification failed."]]]
    /\ UNCHANGED <<users, products, now, env, conns, issued>>

\* a store call of a handler rejects: asyncHandler passes the error to
\* errorHandler
HandlerFault(c, err) ==
    /\ InFlight(c)
    /\ Fail(c, req[c].route, errorHandler(err).status, errorHandler(err).msg)
    /\ UNCHANGED <<users, products, now, env, conns, issued>>

FaultRoutes == {"getProfile", "changePassword", "getAllUsers"}
FaultParams(route) ==
    IF route = "changePassword"
    THEN {changePasswordSchema(b) : b \in ChangePasswordBodies}
    ELSE {NoParams}

NextFaults ==
    \/ \E c \in conns : Receive(c)
    \/ \E c \in conns : Idle(c) /\
          \E route \in FaultRoutes, tok \in TokenInputs :
             \E p \in FaultParams(route) : Enter(c, route, tok, p)
    \/ \E c \in conns : Idle(c) /\
          \E route \in FaultRoutes, tok \in TokenInputs :
             \E p \in FaultParams(route) : ProtectFault(c, route, tok, p)
    \/ \E c \in conns, err \in Faults : HandlerFault(c, err)
    \/ \E c \in conns : GetProfile(c)
    \/ \E c \in conns : GetAllUsers(c)
    \/ \E c \in conns : ChangePasswordLookup(c)
    \/ \E c \in conns : ChangePasswordSave(c)

SpecFaults == InitAdmin /\ [][NextFaults]_vars

\* the fixed texts of a 500 response
GenericMessages == {"Internal Server Error", "Something went wrong!"}

\* C19: every non-operational error raised inside a gate or a handler is
\* answered 500 with a fixed generic message.
\* Refuted twice: a store outage inside the authentication gate is answered
\* 401 'Token verification failed.', and errorHandler answers 500 with the
\* error's own message.
C19_GenericServerError ==
    [][\A c \in Clients :
          \/ \E err \in Faults : HandlerFault(c, err)
          \/ \E tok \in TokenInputs :
                ProtectFault(c, req'[c].route, tok, req'[c].p)
          => /\ req'[c].res.status = 500
             /\ req'[c].res.msg \in GenericMessages]_vars

(* ------------------------------- sessions ------------------------------- *)
\* one client logging in, refreshing, logging out, changing passwords and
\* toggling the other account, with the clock
SessionRoutes == {"logout", "getProfile", "changePassword", "toggleUserStatus"}
SessionParams(route) ==
    IF route \in {"getProfile", "changePassword"}
    THEN ProfileParams(route) ELSE RouteParams(route)

NextSession ==
    \/ Tick
    \/ \E c \in conns : Receive(c)
    \/ \E c \in conns : Idle(c) /\ \E b \in LoginBodies : LoginLookup(c, b)
    \/ \E c \in conns : LoginSave(c)
    \/ \E c \in conns : Idle(c) /\ \E tok \in TokenInputs : RefreshLookup(c, tok)
    \/ \E c \in conns : RefreshSave(c)
    \/ \E c \in conns : Idle(c) /\
          \E route \in SessionRoutes, tok \in TokenInputs :
             \E p \in SessionParams(route) : Enter(c, route, tok, p)
    \/ \E c \in conns : Logout(c)
    \/ \E c \in conns : GetProfile(c)
    \/ \E c \in conns : ChangePasswordLookup(c)
    \/ \E c \in conns : ChangePasswordSave(c)
    \/ \E c \in conns : ToggleUserStatusLookup(c)
    \/ \E c \in conns : ToggleUserStatusSave(c)

SpecSession == InitAdmin /\ [][NextSession]_vars

\* C21: while an active account has no stored refresh token (it logged out
\* and has not logged in again), no token issued to it earlier is accepted:
\* the refresh handler rejects its refresh tokens and the authentication
\* gate rejects its access tokens.
\* Refuted: protect never looks at the refresh-token slot, so the access
\* token issued before the logout passes the gate until it expires.
C21_LogoutInvalidatesTokens ==
    \A i \in 1..Len(users) :
        (users[i].isActive /\ users[i].refreshToken = NoToken) =>
            \A pr \in issued : pr.id = i =>
                /\ ~refreshCheck(generateRefreshToken(i, pr.iat), users, now).ok
                /\ ~protect(generateAccessToken(i, pr.iat), users, now).ok

DeleteRoutes == {"deleteUser", "deleteProduct", "createProduct",
                 "toggleUserStatus", "toggleProductStatus"}

NextDelete ==
    \/ \E c \in conns : Receive(c)
    \/ \E c \in conns : Idle(c) /\
          \E route \in DeleteRoutes, tok \in TokenInputs :
             \E p \in RouteParams(route) : Enter(c, route, tok, p)
    \/ \E c \in conns : DeleteUserLookup(c)
    \/ \E c \in conns : DeleteUserUpdate(c)
    \/ \E c \in conns : DeleteProductLookup(c)
    \/ \E c \in conns : DeleteProductUpdate(c)
    \/ \E c \in conns : CreateProductLookup(c)
    \/ \E c \in conns : CreateProductCreate(c)
    \/ \E c \in conns : ToggleUserStatusLookup(c)
    \/ \E c \in conns : ToggleUserStatusSave(c)
    \/ \E c \in conns : ToggleProductStatusLookup(c)
    \/ \E c \in conns : ToggleProductStatusSave(c)

SpecDelete == InitAdmin /\ [][NextDelete]_vars

\* C22: no step removes an account or a product: every stored id stays
\* stored with its email or SKU. The write of deleteUser deactivates the
\* account (active flag false, refresh-token slot emptied) and changes
\* nothing else; the write of deleteProduct sets the product's active flag to
\* false and changes nothing else; both are answered 200 and leave the store
\* as it is when the record is already deactivated.
C22_SoftDelete ==
    [][/\ Len(users') >= Len(users)
       /\ Len(products') >= Len(products)
       /\ \A i \in 1..Len(users) : users'[i].email = users[i].email
       /\ \A i \in 1..Len(products) : products'[i].sku = products[i].sku
       /\ \A c \in Clients :
            /\ (At(c, "deleteUser", "update") /\ req'[c] # req[c]) =>
                 LET t == req[c].p.target IN
                 /\ req'[c].res.status = 200
                 /\ ~users'[t].isActive
                 /\ \A i \in 1..Len(users) : i # t => users'[i] = users[i]
                 /\ users'[t] = [users[t] EXCEPT !.isActive = FALSE,
                                                 !.refreshToken = NoToken]
                 /\ ~users[t].isActive => users' = users
                 /\ products' = products
            /\ (At(c, "deleteProduct", "update") /\ req'[c] # req[c]) =>
                 LET t == req[c].p.target IN
                 /\ req'[c].res.status = 200
                 /\ products' = [products EXCEPT ![t].isActive = FALSE]
                 /\ ~products[t].isActive => products' = products
                 /\ users' = users]_vars

\* a product that was already deactivated has been deleted again: answered
\* 200, still stored, still inactive
C22_Witness ==
    \E c \in Clients :
        /\ Answered(c, "deleteProduct", 200)
        /\ ~req[c].doc.isActive
        /\ req[c].p.target \in 1..Len(products)
        /\ ~products[req[c].p.target].isActive

(* ------------------------------ public reads ---------------------------- *)
PublicReadRoutes ==
    {"getAllProducts", "getProduct", "getFeaturedProducts", "getProductsByCategory"}

PublicParams(route) ==
    CASE route = "getAllProducts" ->
            {querySchema(pg, l) : pg \in {NoPage, 2}, l \in {NoPage, 1}}
      [] route = "getProductsByCategory" ->
            {[NoParams EXCEPT !.page = pg, !.limit = l, !.category = "books"] :
                pg \in {NoPage, 2}, l \in {NoPage, 1}}
      [] route = "getFeaturedProducts" ->
            {[NoParams EXCEPT !.limit = l] : l \in {NoPage, 1}}
      [] route = "getProduct" ->
            {[NoParams EXCEPT !.target = t] : t \in ProductTargetInputs}
      [] route = "createProduct" ->
            {[createSchema(b) EXCEPT !.isFeatured = f] :
                b \in {x \in CreateBodies : x.stock = Whole(1)}, f \in BOOLEAN}
      [] OTHER -> RouteParams(route)

NextPublic ==
    \/ \E c \in conns : Receive(c)
    \/ \E c \in conns : Idle(c) /\
          \E route \in PublicReadRoutes \cup
                       {"createProduct", "deleteProduct", "toggleProductStatus"},
             tok \in TokenInputs :
             \E params \in PublicParams(route) : Enter(c, route, tok, params)
    \/ \E c \in conns : GetAllProductsCount(c)
    \/ \E c \in conns : GetAllProductsFind(c)
    \/ \E c \in conns : GetProductsByCategoryCount(c)
    \/ \E c \in conns : GetProductsByCategoryFind(c)
    \/ \E c \in conns : GetProduct(c)
    \/ \E c \in conns : GetFeaturedProducts(c)
    \/ \E c \in conns : CreateProductLookup(c)
    \/ \E c \in conns : CreateProductCreate(c)
    \/ \E c \in conns : DeleteProductLookup(c)
    \/ \E c \in conns : DeleteProductUpdate(c)
    \/ \E c \in conns : ToggleProductStatusLookup(c)
    \/ \E c \in conns : ToggleProductStatusSave(c)

SpecPublic == InitAdmin /\ [][NextPublic]_vars

\* C23: a public read never returns an inactive product: every product in
\* the answer of getAllProducts, getProduct, getFeaturedProducts or
\* getProductsByCategory is active when the answer is made, and getProduct
\* of an inactive product answers 404.
C23_PublicReadsHideInactive ==
    [][\A c \in conns :
          (req[c].pc # "done" /\ req'[c].pc = "done"
              /\ req'[c].route \in PublicReadRoutes) =>
             /\ req'[c].res.status = 200 =>
                   \A i \in req'[c].res.data.items :
                      i \in 1..Len(products) /\ products[i].isActive
             /\ (req'[c].route = "getProduct"
                   /\ req'[c].p.target \in 1..Len(products)
                   /\ ~products[req'[c].p.target].isActive) =>
                   (req'[c].res.status = 404
                      /\ req'[c].res.msg = "Product not found")]_vars

\* getProduct answered 404 for a product that exists and is inactive, beside
\* an active product
C23_Witness ==
    \E c \in conns :
       /\ Answered(c, "getProduct", 404)
       /\ req[c].p.target \in 1..Len(products)
       /\ ~products[req[c].p.target].isActive
       /\ \E j \in 1..Len(products) : products[j].isActive

(* ------------------------- concurrent requests -------------------------- *)
\* the accounts of InitAdmin, with two clients connected
InitTwoClients ==
    /\ users = << [email |-> [addr |-> "a@x.com", upper |-> FALSE],
                   password |-> Hash("Passw0rd1"), role |-> "admin",
                   isActive |-> TRUE, refreshToken |-> generateRefreshToken(1, 0),
                   name |-> "Ann"],
                  [email |-> [addr |-> "b@x.com", upper |-> FALSE],
                   password |-> Hash("Passw0rd1"), role |-> "user",
                   isActive |-> TRUE, refreshToken |-> generateRefreshToken(2, 0),
                   name |-> "Bob"] >>
    /\ products = <<>>
    /\ now = 0
    /\ env = "production"
    /\ issued = {[id |-> 1, iat |-> 0], [id |-> 2, iat |-> 0]}
    /\ req = [c \in Clients |-> NoReq]
    /\ conns = Clients

\* token issue (login, refresh) beside deactivation (deleteUser,
\* toggleUserStatus), each await a step of its own
NextRevoke ==
    \/ \E c \in conns : Receive(c)
    \/ \E c \in conns : Idle(c) /\
          \E b \in {x \in LoginBodies : x.password = "Passw0rd1"} : LoginLookup(c, b)
    \/ \E c \in conns : LoginSave(c)
    \/ \E c \in conns : Idle(c) /\ \E tok \in TokenInputs : RefreshLookup(c, tok)
    \/ \E c \in conns : RefreshSave(c)
    \/ \E c \in conns : Idle(c) /\
          \E route \in {"deleteUser", "toggleUserStatus"}, tok \in TokenInputs :
             \E p \in RouteParams(route) : Enter(c, route, tok, p)
    \/ \E c \in conns : DeleteUserLookup(c)
    \/ \E c \in conns : DeleteUserUpdate(c)
    \/ \E c \in conns : ToggleUserStatusLookup(c)
    \/ \E c \in conns : ToggleUserStatusSave(c)

SpecRevoke == InitTwoClients /\ [][NextRevoke]_vars

\* C24: in every reachable state, the interleavings of store reads and
\* writes of concurrent requests included, an inactive account has no
\* stored refresh token.
C24_InactiveHasNoToken ==
    \A i \in 1..Len(users) :
       ~users[i].isActive => users[i].refreshToken = NoToken

\* two clients adjusting the stock of one product (sku SKU-1, no stock)
\* that the administrator created
InitStock ==
    /\ users = << [email |-> [addr |-> "a@x.com", upper |-> FALSE],
                   password |-> Hash("Passw0rd1"), role |-> "admin",
                   isActive |-> TRUE, refreshToken |-> generateRefreshToken(1, 0),
                   name |-> "Ann"],
                  [email |-> [addr |-> "b@x.com", upper |-> FALSE],
                   password |-> Hash("Passw0rd1"), role |-> "user",
                   isActive |-> TRUE, refreshToken |-> generateRefreshToken(2, 0),
                   name |-> "Bob"] >>
    /\ products = << [sku |-> "SKU-1", stock |-> Whole(0), isActive |-> TRUE,
                      price |-> 1, comparePrice |-> NoPrice, images |-> <<TRUE>>,
                      category |-> "books", isFeatured |-> FALSE] >>
    /\ now = 0
    /\ env = "production"
    /\ issued = {[id |-> 1, iat |-> 0], [id |-> 2, iat |-> 0]}
    /\ req = [c \in Clients |-> NoReq]
    /\ conns = Clients

NextStock ==
    \/ \E c \in conns : Receive(c)
    \/ \E c \in conns : Idle(c) /\
          \E tok \in TokenInputs,
             p \in {x \in RouteParams("updateStock") :
                       x.op \in {"add", "subtract"}} :
             Enter(c, "updateStock", tok, p)
    \/ \E c \in conns : UpdateStockLookup(c)
    \/ \E c \in conns : UpdateStockSave(c)

SpecStock == InitStock /\ [][NextStock]_vars

\* C25: no adjustment is lost when updateStock requests interleave: every
\* add or subtract that is saved leaves the product with the stock it had
\* just before the save, adjusted by the request's amount, so that the final
\* stock is the result of applying the requests one after the other.
C25_NoLostAdjustment ==
    [][\A c \in conns :
          (At(c, "updateStock", "save") /\ req'[c].pc = "done"
              /\ req'[c].res.status = 200
              /\ req[c].p.op \in {"add", "subtract"}) =>
             products'[req[c].doc.id].stock =
                newStock(products[req[c].doc.id].stock, req[c].p)]_vars

\* a development store in which two administrators registered, each on a
\* connection of its own
InitTwoAdmins ==
    /\ users = << [email |-> [addr |-> "a@x.com", upper |-> FALSE],
                   password |-> Hash("Passw0rd1"), role |-> "admin",
                   isActive |-> TRUE, refreshToken |-> generateRefreshToken(1, 0),
                   name |-> "Ann"],
                  [email |-> [addr |-> "b@x.com", upper |-> FALSE],
                   password |-> Hash("Passw0rd1"), role |-> "admin",
                   isActive |-> TRUE, refreshToken |-> generateRefreshToken(2, 0),
                   name |-> "Bob"] >>
    /\ products = <<>>
    /\ now = 0
    /\ env = "development"
    /\ issued = {[id |-> 1, iat |-> 0], [id |-> 2, iat |-> 0]}
    /\ req = [c \in Clients |-> NoReq]
    /\ conns = Clients

NextTwoAdmins ==
    \/ \E c \in conns : Receive(c)
    \/ \E c \in conns : Idle(c) /\
          \E route \in {"deleteUser", "toggleUserStatus"}, tok \in TokenInputs :
             \E p \in RouteParams(route) : Enter(c, route, tok, p)
    \/ \E c \in conns : DeleteUserLookup(c)
    \/ \E c \in conns : DeleteUserUpdate(c)
    \/ \E c \in conns : ToggleUserStatusLookup(c)
    \/ \E c \in conns : ToggleUserStatusSave(c)

SpecTwoAdmins == InitTwoAdmins /\ [][NextTwoAdmins]_vars

\* C26: once an active administrator exists, every reachable state has at
\* least one active administrator, also when deleteUser and toggleUserStatus
\* requests of different administrators interleave after each passed protect.
C26_ActiveAdminRemains ==
    \E i \in 1..Len(users) : users[i].role = "admin" /\ users[i].isActive

(* ----------------------- own profile or administrator ------------------- *)
\* a name: absent, valid, too short
NameInputs == {"", "Al", "x"}
\* PUT /api/users/:id bodies; role and isActive are keys the schema does
\* not know ("" = key absent)
UpdateProfileBodies ==
    [name : NameInputs, role : {"", "admin", "user"},
     isActive : {"", "true", "false"}]

\* the schema as it would be if unknown keys were kept
updateProfileSchemaKeepsUnknown(b) ==
    [NoParams EXCEPT !.valid = b.name # "x", !.name = b.name,
                     !.role = b.role, !.flag = b.isActive,
                     !.sent = [role |-> b.role, isActive |-> b.isActive]]

\* userValidation.updateProfile under validate(): stripUnknown drops role
\* and isActive, and req.body is replaced by the validated value; sent
\* records what the client typed
updateProfileSchema(b) ==
    [NoParams EXCEPT !.valid = b.name # "x", !.name = b.name,
                     !.sent = [role |-> b.role, isActive |-> b.isActive]]

\* getUser as it would be without the ownership comparison
getUserCheckAnyone(us, user, target) ==
    IF target \notin 1..Len(us)
    THEN Reject(404, "User not found")
    ELSE Pass(user)

\* getUser lines 70-79
getUserCheck(us, user, target) ==
    IF target \notin 1..Len(us)
    THEN Reject(404, "User not found")
    ELSE IF user.id # target /\ user.role # "admin"
    THEN Reject(403, "Access denied. You can only view your own profile.")
    ELSE Pass(user)

\* getUser lines 69-98
GetUser(c) ==
    LET t == req[c].p.target
        r == getUserCheck(users, req[c].user, t)
    IN
    /\ At(c, "getUser", "handler")
    /\ IF ~r.ok
       THEN Fail(c, "getUser", r.status, r.msg)
       ELSE RespondData(c, "getUser",
                [NoData EXCEPT !.id = t, !.email = users[t].email,
                               !.role = users[t].role])
    /\ UNCHANGED <<users, products, now, env, conns, issued>>

\* updateUser lines 109-118
updateUserCheck(us, user, target) ==
    IF target \notin 1..Len(us)
    THEN Reject(404, "User not found")
    ELSE IF user.id # target /\ user.role # "admin"
    THEN Reject(403, "Access denied. You can only update your own profile.")
    ELSE Pass(user)

UpdateUserLookup(c) ==
    LET r == updateUserCheck(users, req[c].user, req[c].p.target) IN
    /\ At(c, "updateUser", "handler")
    /\ IF ~r.ok
       THEN Fail(c, "updateUser", r.status, r.msg)
       ELSE /\ req' = [req EXCEPT ![c].pc = "update"]
    /\ UNCHANGED <<users, products, now, env, conns, issued>>

\* lines 120-131: updateData from the validated body; role and isActive
\* only for an administrator and only when the body still holds them
updateUserWrite(doc, user, p) ==
    LET named == IF p.name # "" THEN [doc EXCEPT !.name = p.name] ELSE doc
        roled == IF user.role = "admin" /\ p.role # ""
                 THEN [named EXCEPT !.role = p.role] ELSE named
    IN
    IF user.role = "admin" /\ p.flag # ""
    THEN [roled EXCEPT !.isActive = (p.flag = "true")] ELSE roled

\* lines 133-140: User.findByIdAndUpdate(id, updateData, { runValidators })
UpdateUserUpdate(c) ==
    LET t == req[c].p.target IN
    /\ At(c, "updateUser", "update")
    /\ users' = [users EXCEPT ![t] = updateUserWrite(users[t], req[c].user, req[c].p)]
    /\ Done(c, "updateUser", 200, "User profile updated successfully")
    /\ UNCHANGED <<products, now, env, conns, issued>>

OwnerRoutes == {"getUser", "updateUser", "deleteUser"}

OwnerParams(route) ==
    CASE route = "updateUser" ->
            {[updateProfileSchema(b) EXCEPT !.target = t] :
                b \in UpdateProfileBodies, t \in TargetInputs}
      [] route = "getUser" ->
            {[NoParams EXCEPT !.target = t] : t \in TargetInputs}
      [] OTHER -> RouteParams(route)

NextOwner ==
    \/ \E c \in conns : Receive(c)
    \/ \E c \in conns : Idle(c) /\
          \E route \in OwnerRoutes \cup {"toggleUserStatus"}, tok \in TokenInputs :
             \E p \in OwnerParams(route) : Enter(c, route, tok, p)
    \/ \E c \in conns : GetUser(c)
    \/ \E c \in conns : UpdateUserLookup(c)
    \/ \E c \in conns : UpdateUserUpdate(c)
    \/ \E c \in conns : DeleteUserLookup(c)
    \/ \E c \in conns : DeleteUserUpdate(c)
    \/ \E c \in conns : ToggleUserStatusLookup(c)
    \/ \E c \in conns : ToggleUserStatusSave(c)

SpecOwner == InitAdmin /\ [][NextOwner]_vars

C29_OwnAccountOnly ==
    [][\A c \in conns :
          (req[c].pc = "handler" /\ req[c].route \in OwnerRoutes
              /\ req[c].user.role # "admin"
              /\ req[c].p.target # req[c].user.id
              /\ req'[c] # req[c]) =>
             /\ req'[c].pc = "done"
             /\ req'[c].res.status =
                   IF req[c].p.target \in 1..Len(users) THEN 403 ELSE 404
             /\ req'[c].res.data = NoData
             /\ users' = users]_vars

\* the standard account asked to update the administrator's account and
\* was answered 403
C29_Witness ==
    \E c \in conns :
       /\ Answered(c, "updateUser", 403)
       /\ req[c].p.target = 1
       /\ req[c].p.name = "Al"
       /\ users[1].name = "Ann"

(* ------------------------------ token kinds ----------------------------- *)
AccessTokensIssued == {generateAccessToken(pr.id, pr.iat) : pr \in issued}
RefreshTokensIssued == {generateRefreshToken(pr.id, pr.iat) : pr \in issued}

\* a protected request, with the bearer token of its Authorization header
BearerParams(tok) == [NoParams EXCEPT !.token = tok]

NextKinds ==
    \/ Tick
    \/ \E c \in conns : Receive(c)
    \/ \E c \in conns : Idle(c) /\
          \E b \in {x \in LoginBodies : x.password = "Passw0rd1"} : LoginLookup(c, b)
    \/ \E c \in conns : LoginSave(c)
    \/ \E c \in conns : Idle(c) /\ \E tok \in TokenInputs : RefreshLookup(c, tok)
    \/ \E c \in conns : RefreshSave(c)
    \/ \E c \in conns : Idle(c) /\
          \E tok \in TokenInputs : Enter(c, "getProfile", tok, BearerParams(tok))
    \/ \E c \in conns : GetProfile(c)

SpecKinds == InitTwoClients /\ [][NextKinds]_vars

\* C30: the two kinds of token are not interchangeable (the secrets differ):
\* a refresh token sent as bearer token is rejected by protect with 401,
\* and an access token sent to the refresh handler is rejected with 401,
\* also when the account is active.
C30_KindsNotInterchangeable ==
    /\ [](JWT_SECRET # JWT_REFRESH_SECRET =>
            /\ \A tok \in RefreshTokensIssued :
                  LET g == protect(tok, users, now) IN ~g.ok /\ g.status = 401
            /\ \A tok \in AccessTokensIssued :
                  LET r == refreshCheck(tok, users, now) IN ~r.ok /\ r.status = 401)
    /\ [][\A c \in conns :
            (req[c].pc = "idle" /\ req'[c].pc # "idle") =>
               /\ (req'[c].route = "getProfile"
                     /\ req'[c].p.token \in RefreshTokensIssued) =>
                     (req'[c].pc = "done" /\ req'[c].res.status = 401)
               /\ (req'[c].route = "refreshToken"
                     /\ req'[c].p.token \in AccessTokensIssued) =>
                     (req'[c].pc = "done" /\ req'[c].res.status = 401
                        /\ req'[c].res.accessToken = NoToken)]_vars

\* one client sent the stored, unexpired refresh token of an active account
\* as bearer token, the other sent that account's unexpired access token to
\* the refresh handler; both were answered 401
C30_Witness ==
    \E c, d \in conns : \E pr \in issued :
       /\ pr.id \in 1..Len(users)
       /\ users[pr.id].isActive
       /\ users[pr.id].refreshToken = generateRefreshToken(pr.id, pr.iat)
       /\ now < pr.iat + JWT_EXPIRE
       /\ Answered(c, "getProfile", 401)
       /\ req[c].p.token = generateRefreshToken(pr.id, pr.iat)
       /\ Answered(d, "refreshToken", 401)
       /\ req[d].p.token = generateAccessToken(pr.id, pr.iat)
====
